---- MODULE Spec2Model ----
(***************************************************************************)
(* FileOrganizer: the classification-and-move engine.                      *)
(*                                                                         *)
(* The model follows file_handler/file_utils.py (organize_files and its    *)
(* helpers), file_handler/file_operations.py (move_file, hashing) and the  *)
(* callback that gui/processing_thread.py hands to organize_files.         *)
(*                                                                         *)
(* A file name is kept in structured form: the text before the extension   *)
(* (s), the numbers of the `_copy<N>` suffixes appended to it (n) and the  *)
(* extension with its leading dot (e).  A path is a sequence of names; the *)
(* folder handed to organize_files is the empty path.                      *)
(***************************************************************************)
EXTENDS Integers, Sequences, FiniteSets, TLC

VARIABLES
    fs,               \* the filesystem: path -> node
    cfg,              \* app_config
    recursive,        \* organize_files(recursive=...)
    preview_mode,     \* organize_files(preview_mode=...)
    stack,            \* the call stack of organize_files: one frame per folder
    pc,               \* "init", "running", "done"
    result,           \* the summary returned by the outermost call
    stop_requested,   \* ProcessingThread._stop_requested
    processed_files,  \* ProcessingThread.processed_files
    last,             \* history: what the last loop iteration did
    steps,            \* history: number of loop iterations completed
    fs0,              \* history: the filesystem when the run started
    previewed,        \* history: the preview run made before this run, if any
    classified,       \* the values returned by the classifier, latest last
    counted,          \* history: every increment made by any call of the run
    par,              \* the calls of organize_files running in parallel threads
    second_run,       \* history: this run follows a completed run on the folder
    thread            \* a ProcessingThread or BatchProcessingThread and its signals

vars == <<fs, cfg, recursive, preview_mode, stack, pc, result, stop_requested,
          processed_files, last, steps, fs0, previewed, classified, counted,
          par, second_run, thread>>

(***************************************************************************)
(* Bounds of the model.                                                    *)
(***************************************************************************)
MaxRootFiles == 2
MaxSubFiles == 1
MaxCopy == 2
MaxClassify == 2

(***************************************************************************)
(* Names and paths.                                                        *)
(***************************************************************************)
\* A name without `_copy` suffixes: "<s><e>".
File(s, e) == [k |-> "lit", s |-> s, n |-> <<>>, e |-> e]

\* A directory name given literally.
Lit(s) == File(s, "")

\* f"{width}x{height}"
SizeKey(w, h) == [k |-> "size", s |-> "x", n |-> <<w, h>>, e |-> ""]

\* f"{duration}s"
SecondsKey(d) == [k |-> "secs", s |-> "s", n |-> <<d>>, e |-> ""]

\* str(n) of an integer: its decimal digits, after a minus sign when n < 0.
RECURSIVE str(_)
str(n) ==
    IF n < 0 THEN <<"-">> \o str(-n)
    ELSE IF n < 10 THEN <<<<"0", "1", "2", "3", "4", "5", "6", "7", "8", "9">>[n + 1]>>
    ELSE str(n \div 10) \o str(n % 10)

\* format_name written without the x between width and height.
format_name_unseparated(name) ==
    CASE name.k = "size" -> str(name.n[1]) \o str(name.n[2])
      [] name.k = "secs" -> str(name.n[1]) \o <<"s">>
      [] OTHER -> <<name.s, name.e>>

\* The characters of a name: what the f-string puts into the path.
format_name(name) ==
    CASE name.k = "size" -> str(name.n[1]) \o <<"x">> \o str(name.n[2])
      [] name.k = "secs" -> str(name.n[1]) \o <<"s">>
      [] OTHER -> <<name.s, name.e>>

\* "/".join of the formatted names of a relative path.
RECURSIVE format_path(_)
format_path(path) ==
    IF path = <<>> THEN <<>>
    ELSE IF Len(path) = 1 THEN format_name(path[1])
    ELSE format_name(path[1]) \o <<"/">> \o format_path(Tail(path))

\* os.path.splitext(file): <<base name, extension>>
splitext(name) == <<[name EXCEPT !.e = ""], name.e>>

\* f"{base_name}_copy{counter}{ext}"
CopyName(base_name, counter, ext) ==
    [base_name EXCEPT !.n = Append(@, counter), !.e = ext]

\* str.lower() on the extensions and replies of the model.
Lower(x) ==
    CASE x = ".TXT" -> ".txt"
      [] x = ".JPG" -> ".jpg"
      [] x = ".MP3" -> ".mp3"
      [] x = "K" -> "k"
      [] x = "O" -> "o"
      [] x = "R" -> "r"
      [] OTHER -> x

\* os.path.join(folder, name)
join(folder, name) == Append(folder, name)

(***************************************************************************)
(* Filesystem nodes.  For a file, readable says that it can be opened for  *)
(* reading and writable that it can be renamed; for a directory, readable  *)
(* says that it can be listed and writable that entries can be created in  *)
(* it and removed from it.  mtime stands for the (atime, mtime) pair.      *)
(***************************************************************************)
Meta(ok, has, a, b) == [ok |-> ok, has |-> has, a |-> a, b |-> b]

NoMeta == Meta(FALSE, FALSE, 0, 0)

FileNode(content, mtime, readable, writable, meta) ==
    [type |-> "file", content |-> content, mtime |-> mtime,
     readable |-> readable, writable |-> writable, meta |-> meta]

DirNode(readable, writable) ==
    [type |-> "dir", content |-> 0, mtime |-> 0,
     readable |-> readable, writable |-> writable, meta |-> NoMeta]

\* An entry that is neither a file nor a directory (a broken symlink).
OtherNode ==
    [type |-> "other", content |-> 0, mtime |-> 0,
     readable |-> FALSE, writable |-> FALSE, meta |-> NoMeta]

exists(f, p) == p \in DOMAIN f /\ f[p].type # "other"
isdir(f, p) == p \in DOMAIN f /\ f[p].type = "dir"
isfile(f, p) == p \in DOMAIN f /\ f[p].type = "file"

\* os.listdir(folder): the names of the entries of folder.
listdir(f, folder) ==
    {p[Len(p)] : p \in {q \in DOMAIN f : Len(q) = Len(folder) + 1
                                         /\ SubSeq(q, 1, Len(folder)) = folder}}

(***************************************************************************)
(* Summaries: defaultdict(int), a key is present once it was incremented.  *)
(***************************************************************************)
EmptySummary == [k \in {} |-> 0]

Count(s, k) == IF k \in DOMAIN s THEN s[k] ELSE 0

\* summary[key] += 1
Inc(s, k) == [x \in DOMAIN s \cup {k} |-> Count(s, x) + (IF x = k THEN 1 ELSE 0)]

\* Merge that adds only the keys the caller has counted itself.
Merge_own_keys(s, t) == [x \in DOMAIN s |-> Count(s, x) + Count(t, x)]

\* Merge as summary.update(sub_summary): the value of the callee replaces
\* the one of the caller.
Merge_update(s, t) ==
    [x \in DOMAIN s \cup DOMAIN t |-> IF x \in DOMAIN t THEN t[x] ELSE s[x]]

\* for key, value in sub_summary.items(): summary[key] += value
Merge(s, t) == [x \in DOMAIN s \cup DOMAIN t |-> Count(s, x) + Count(t, x)]

(***************************************************************************)
(* Metadata backends (file_handler/metadata_handlers.py).  What a backend  *)
(* reads from a file is the file's meta record: ok says that the backend   *)
(* can read the file, has that a duration is present, a and b are the      *)
(* width and height of an image, a alone the duration in tenths of a       *)
(* second.  A backend returns [ok |-> FALSE] when it raises.               *)
(***************************************************************************)
\* The call raises an exception of class exc.
Raises(exc) == [ok |-> FALSE, v |-> <<>>, exc |-> exc]

Raised == Raises("Exception")

Returned(v) == [ok |-> TRUE, v |-> v, exc |-> ""]

\* with Image.open(file_path) as img: return img.size
get_image_size(f, file_path) ==
    IF isfile(f, file_path) /\ f[file_path].meta.ok
    THEN Returned(<<f[file_path].meta.a, f[file_path].meta.b>>)
    ELSE Raised

\* TinyTag.get(file_path).duration: tenths of a second, <<>> for None
get_audio_duration(f, file_path) ==
    IF isfile(f, file_path) /\ f[file_path].meta.ok
    THEN Returned(IF f[file_path].meta.has THEN <<f[file_path].meta.a>> ELSE <<>>)
    ELSE Raised

\* supported_formats = [".mp4", ".avi", ".mov", ".mkv", ".wmv"]
supported_formats == {".mp4", ".avi", ".mov", ".mkv", ".wmv"}

\* _, ext = os.path.splitext(file_path): metadata_handlers.py never imports
\* os, so this first statement raises NameError for every file, before the
\* test of supported_formats and before ffprobe is run.
get_video_duration(f, file_path) == Raises("NameError")

\* int(x or 0) for a duration x in tenths of a second: None and 0.0 are
\* falsy, int() truncates toward zero.
IntOrZero(x) ==
    IF x = <<>> THEN 0
    ELSE IF x[1] >= 0 THEN x[1] \div 10 ELSE -((-x[1]) \div 10)

(***************************************************************************)
(* Classification (file_utils.py: handle_category, organize_by_metadata).  *)
(* A destination is a relative path: a sequence of directory names.        *)
(***************************************************************************)
\* What a call of the classifier does: the subfolder it returns and the
\* metadata backends it calls.
Traced(subfolder, backends) == [subfolder |-> subfolder, backends |-> backends]

\* images_branch without its own handler: the exception of the backend is
\* taken by the outer handler of handle_category, which returns the category.
images_branch_outer_handler(f, file_path) ==
    LET r == get_image_size(f, file_path)
    IN  Traced(IF r.ok THEN <<Lit("Images"), SizeKey(r.v[1], r.v[2])>>
               ELSE <<Lit("Images")>>, {"get_image_size"})

\* if category == "Images": try: width, height = get_image_size(file_path)
\* return f"Images/{width}x{height}"  except: return "Images/Unknown_Size"
images_branch(f, file_path) ==
    LET r == get_image_size(f, file_path)
    IN  Traced(IF r.ok THEN <<Lit("Images"), SizeKey(r.v[1], r.v[2])>>
               ELSE <<Lit("Images"), Lit("Unknown_Size")>>, {"get_image_size"})

\* audio_branch taking a duration that cannot be read for no duration.
audio_branch_zero_on_failure(f, file_path) ==
    LET r == get_audio_duration(f, file_path)
    IN  Traced(<<Lit("Audio"), SecondsKey(IntOrZero(r.v))>>, {"get_audio_duration"})

\* elif category == "Audio": duration = int(get_audio_duration(...) or 0)
audio_branch(f, file_path) ==
    LET r == get_audio_duration(f, file_path)
    IN  Traced(IF r.ok THEN <<Lit("Audio"), SecondsKey(IntOrZero(r.v))>>
               ELSE <<Lit("Audio"), Lit("Unknown_Duration")>>,
               {"get_audio_duration"})

\* documents_branch with the empty string for the default subfolder.
documents_branch_no_default(ext, document_subfolders) ==
    Traced(<<Lit("Documents"),
             Lit(IF Lower(ext) \in DOMAIN document_subfolders
                 THEN document_subfolders[Lower(ext)]
                 ELSE "")>>, {})

\* documents_branch counting the words of the document first.
documents_branch_word_count(ext, document_subfolders) ==
    Traced(<<Lit("Documents"),
             Lit(IF Lower(ext) \in DOMAIN document_subfolders
                 THEN document_subfolders[Lower(ext)]
                 ELSE "Other_Documents")>>, {"get_document_word_count"})

\* elif category == "Documents":
\* subfolder = document_subfolders.get(ext.lower(), "Other_Documents")
documents_branch(ext, document_subfolders) ==
    Traced(<<Lit("Documents"),
             Lit(IF Lower(ext) \in DOMAIN document_subfolders
                 THEN document_subfolders[Lower(ext)]
                 ELSE "Other_Documents")>>, {})

\* elif category == "Video": duration = int(get_video_duration(...) or 0)
video_branch(f, file_path) ==
    LET r == get_video_duration(f, file_path)
    IN  Traced(IF r.ok THEN <<Lit("Video"), SecondsKey(IntOrZero(r.v))>>
               ELSE <<Lit("Video"), Lit("Unknown_Duration")>>,
               {"get_video_duration"})

\* other_category with the size of the file looked up, as for an image.
other_category_probes_size(f, file_path, category) ==
    LET r == get_image_size(f, file_path)
    IN  Traced(IF r.ok THEN <<Lit(category), SizeKey(r.v[1], r.v[2])>>
               ELSE <<Lit(category), Lit("Unknown_Size")>>, {"get_image_size"})

\* No branch of handle_category is taken: return category
other_category(f, file_path, category) == Traced(<<Lit(category)>>, {})

\* handle_category: the branch of the category.
handle_category_traced(f, file_path, category, ext, document_subfolders) ==
    CASE category = "Images" -> images_branch(f, file_path)
      [] category = "Audio" -> audio_branch(f, file_path)
      [] category = "Documents" -> documents_branch(ext, document_subfolders)
      [] category = "Video" -> video_branch(f, file_path)
      [] OTHER -> other_category(f, file_path, category)

\* The value of handle_category.
handle_category(f, file_path, category, ext, document_subfolders) ==
    handle_category_traced(f, file_path, category, ext, document_subfolders).subfolder

\* organize_by_metadata_traced with the loop variable used after the loop:
\* a file no category matches gets the last category of the table.
organize_by_metadata_last_category(f, file_path, ext, app_config) ==
    LET cats == app_config.file_categories
        hits == {i \in 1..Len(cats) : ext \in cats[i].extensions}
        i == IF hits = {} THEN Len(cats)
             ELSE CHOOSE j \in hits : \A m \in hits : j <= m
    IN  IF cats = <<>> THEN Traced(<<Lit("Others")>>, {})
        ELSE handle_category_traced(f, file_path, cats[i].category, ext,
                                    app_config.subfolders)

\* organize_by_metadata_traced with the last matching category taken.
organize_by_metadata_last_match(f, file_path, ext, app_config) ==
    LET cats == app_config.file_categories
        hits == {i \in 1..Len(cats) : ext \in cats[i].extensions}
    IN  IF hits = {} THEN Traced(<<Lit("Others")>>, {})
        ELSE LET i == CHOOSE j \in hits : \A m \in hits : j >= m
             IN  handle_category_traced(f, file_path, cats[i].category, ext,
                                        app_config.subfolders)

\* for category, extensions in file_categories.items():
\*     if ext in extensions: return handle_category(...)
\* return "Others"
organize_by_metadata_traced(f, file_path, ext, app_config) ==
    LET cats == app_config.file_categories
        hits == {i \in 1..Len(cats) : ext \in cats[i].extensions}
    IN  IF hits = {} THEN Traced(<<Lit("Others")>>, {})
        ELSE LET i == CHOOSE j \in hits : \A m \in hits : j <= m
             IN  handle_category_traced(f, file_path, cats[i].category, ext,
                                        app_config.subfolders)

\* The value of organize_by_metadata.
organize_by_metadata(f, file_path, ext, app_config) ==
    organize_by_metadata_traced(f, file_path, ext, app_config).subfolder

(***************************************************************************)
(* File operations (file_handler/file_operations.py).                      *)
(***************************************************************************)
\* sha256(file.read()).hexdigest(): equal digests iff equal contents;
\* open() raises for a directory and for an unreadable file.
calculate_file_hash(f, file_path) ==
    IF isfile(f, file_path) /\ f[file_path].readable
    THEN Returned(<<"sha256", f[file_path].content>>)
    ELSE Raised

parent(p) == SubSeq(p, 1, Len(p) - 1)

\* shutil.move(src, dest): a rename; an existing file at dest is replaced,
\* an existing directory at dest receives the file under its own name.
shutil_move(f, src, dest) ==
    LET real_dst == IF isdir(f, dest) THEN join(dest, src[Len(src)]) ELSE dest
        can == /\ src \in DOMAIN f
               /\ f[src].writable
               /\ f[parent(src)].writable
               /\ isdir(f, parent(real_dst))
               /\ f[parent(real_dst)].writable
               /\ ~(isdir(f, dest) /\ exists(f, real_dst))
    IN  IF can
        THEN [fs |-> [p \in (DOMAIN f \ {src}) \cup {real_dst} |->
                        IF p = real_dst THEN f[src] ELSE f[p]],
              raised |-> FALSE]
        ELSE [fs |-> f, raised |-> TRUE]

\* stat_info = os.stat(src); os.utime(dest, (st_atime, st_mtime))
preserve_timestamps(f, src, dest) ==
    IF src \in DOMAIN f /\ dest \in DOMAIN f
    THEN [fs |-> [f EXCEPT ![dest].mtime = f[src].mtime], raised |-> FALSE]
    ELSE [fs |-> f, raised |-> TRUE]

\* shutil.move(src, dest); preserve_timestamps(src, dest)
move_file(f, src, dest) ==
    LET m == shutil_move(f, src, dest)
    IN  IF m.raised THEN m ELSE preserve_timestamps(m.fs, src, dest)

\* os.makedirs(target_folder, exist_ok=True), target_folder below folder:
\* raises when a component exists and is no directory, or when the first
\* missing component cannot be created in its parent.
makedirs(f, folder, target_folder) ==
    LET prefixes == {SubSeq(target_folder, 1, i) :
                       i \in (Len(folder) + 1)..Len(target_folder)}
        missing == {p \in prefixes : p \notin DOMAIN f}
        can == /\ \A p \in prefixes \ missing : f[p].type = "dir"
               /\ \A p \in missing : parent(p) \in DOMAIN f => f[parent(p)].writable
    IN  IF can
        THEN [fs |-> [p \in DOMAIN f \cup missing |->
                        IF p \in missing THEN DirNode(TRUE, TRUE) ELSE f[p]],
              raised |-> FALSE]
        ELSE [fs |-> f, raised |-> TRUE]

\* handle_duplicate: the user's reply, lower-cased; the default action for
\* an empty reply and for EOFError or KeyboardInterrupt.  Any other exception
\* of input() (reply "raise": no usable stdin) leaves handle_duplicate.
handle_duplicate(reply, default_action) ==
    IF reply = "raise" THEN Raised
    ELSE IF reply = "" \/ reply = "EOF" THEN Returned(default_action)
    ELSE Returned(Lower(reply))

\* rename_loop without the re-check: the first candidate is taken.
rename_once(f, dest, target_folder, base_name, ext, counter) ==
    IF exists(f, dest)
    THEN join(target_folder, CopyName(base_name, counter, ext))
    ELSE dest

\* while os.path.exists(dest): dest = join(target_folder, f"..._copy{counter}...")
RECURSIVE rename_loop(_, _, _, _, _, _)
rename_loop(f, dest, target_folder, base_name, ext, counter) ==
    IF exists(f, dest)
    THEN rename_loop(f, join(target_folder, CopyName(base_name, counter, ext)),
                     target_folder, base_name, ext, counter + 1)
    ELSE dest

(***************************************************************************)
(* One iteration of the loop of organize_files over a regular file: what   *)
(* the body decides for the entry `file` of `folder`, given the reply the  *)
(* user gives if handle_duplicate asks.  The outcome records               *)
(*   kind    the counter incremented ("moved", "preview", ...)             *)
(*   fs      the filesystem after the iteration                            *)
(*   called  whether the callback is reached                               *)
(*   orig    dest as first computed, dest the path handed to move_file     *)
(*   existed whether orig existed                                          *)
(*   hash    "na" orig did not exist, "fail" a digest could not be         *)
(*           computed, "eq" / "ne" the digests are equal / differ          *)
(*   action  the value of handle_duplicate, "" when it is not asked or      *)
(*           raises                                                        *)
(*   moved   whether shutil.move relocated the file                        *)
(***************************************************************************)
Outcome(kind, g, called, src, orig, dest, existed, hash, action, moved) ==
    [kind |-> kind, fs |-> g, called |-> called, src |-> src, orig |-> orig,
     dest |-> dest, existed |-> existed, hash |-> hash, action |-> action,
     moved |-> moved]

\* try: move_file(src, dest); summary['moved'] += 1
\* except Exception: summary['move_failed'] += 1
move_outcome(mv, f, src, orig, dest, existed, hash, action) ==
    Outcome(IF mv.raised THEN "move_failed" ELSE "moved", mv.fs, TRUE, src,
            orig, dest, existed, hash, action, mv.fs # f)

\* if not preview_mode: <move> else: summary['preview'] += 1
move_or_preview(f, preview, src, orig, dest, existed, hash, action) ==
    IF preview
    THEN Outcome("preview", f, TRUE, src, orig, dest, existed, hash, action, FALSE)
    ELSE move_outcome(move_file(f, src, dest), f, src, orig, dest, existed,
                      hash, action)

\* apply_action with "k" counted as kept and the file moved all the same.
apply_action_keep_moves(f, preview, file, src, target_folder, dest, action) ==
    IF action = "r"
    THEN move_or_preview(f, preview, src, dest,
                         rename_loop(f, dest, target_folder, splitext(file)[1],
                                     splitext(file)[2], 1),
                         TRUE, "eq", action)
    ELSE IF action = "k"
    THEN Outcome("duplicate_kept", shutil_move(f, src, dest).fs, FALSE, src, dest,
                 dest, TRUE, "eq", action, FALSE)
    ELSE move_or_preview(f, preview, src, dest, dest, TRUE, "eq", action)

\* apply_action with "o" taken for a rename.
apply_action_o_renames(f, preview, file, src, target_folder, dest, action) ==
    IF action = "r" \/ action = "o"
    THEN move_or_preview(f, preview, src, dest,
                         rename_loop(f, dest, target_folder, splitext(file)[1],
                                     splitext(file)[2], 1),
                         TRUE, "eq", action)
    ELSE IF action = "k"
    THEN Outcome("duplicate_kept", f, FALSE, src, dest, dest, TRUE, "eq",
                 action, FALSE)
    ELSE move_or_preview(f, preview, src, dest, dest, TRUE, "eq", action)

\* if action == "r": <rename loop>  elif action == "k": <keep, continue>
apply_action(f, preview, file, src, target_folder, dest, action) ==
    IF action = "r"
    THEN move_or_preview(f, preview, src, dest,
                         rename_loop(f, dest, target_folder, splitext(file)[1],
                                     splitext(file)[2], 1),
                         TRUE, "eq", action)
    ELSE IF action = "k"
    THEN Outcome("duplicate_kept", f, FALSE, src, dest, dest, TRUE, "eq",
                 action, FALSE)
    ELSE move_or_preview(f, preview, src, dest, dest, TRUE, "eq", action)

\* action = handle_duplicate(src, dest, default_action), inside the try of
\* the duplicate check: an exception leaving it is counted as
\* duplicate_check_failed.
with_action(f, preview, file, src, target_folder, dest, answer) ==
    IF answer.ok
    THEN apply_action(f, preview, file, src, target_folder, dest, answer.v)
    ELSE Outcome("duplicate_check_failed", f, FALSE, src, dest, dest, TRUE,
                 "eq", "", FALSE)

\* handle_existing without the except clause's skip: a failed digest is
\* taken for "no duplicate" and the move goes ahead.
handle_existing_unchecked(f, app_config, preview, file, reply, src, target_folder, dest, hs, hd) ==
    IF hs.ok /\ hd.ok /\ hs.v = hd.v
    THEN with_action(f, preview, file, src, target_folder, dest,
                     handle_duplicate(reply, app_config.default_duplicate_action))
    ELSE move_or_preview(f, preview, src, dest, dest, TRUE,
                         IF hs.ok /\ hd.ok THEN "ne" ELSE "fail", "")

\* if os.path.exists(dest): try: if hash(src) == hash(dest): ...
\* except Exception: summary['duplicate_check_failed'] += 1; continue
handle_existing(f, app_config, preview, file, reply, src, target_folder, dest, hs, hd) ==
    IF ~hs.ok \/ ~hd.ok
    THEN Outcome("duplicate_check_failed", f, FALSE, src, dest, dest, TRUE,
                 "fail", "", FALSE)
    ELSE IF hs.v = hd.v
    THEN with_action(f, preview, file, src, target_folder, dest,
                     handle_duplicate(reply, app_config.default_duplicate_action))
    ELSE move_or_preview(f, preview, src, dest, dest, TRUE, "ne", "")

\* try: os.makedirs(...)  except Exception: summary['mkdir_failed'] += 1
\* dest = os.path.join(target_folder, file)
after_makedirs(mk, f, app_config, preview, file, reply, src, target_folder, dest) ==
    IF mk.raised
    THEN Outcome("mkdir_failed", f, FALSE, src, dest, dest, FALSE, "na", "", FALSE)
    ELSE IF exists(mk.fs, dest)
    THEN handle_existing(mk.fs, app_config, preview, file, reply, src,
                         target_folder, dest, calculate_file_hash(mk.fs, src),
                         calculate_file_hash(mk.fs, dest))
    ELSE move_or_preview(mk.fs, preview, src, dest, dest, FALSE, "na", "")

\* try: os.makedirs(target_folder, exist_ok=True)
with_target(f, app_config, preview, folder, file, reply, src, target_folder) ==
    after_makedirs(makedirs(f, folder, target_folder), f, app_config, preview,
                   file, reply, src, target_folder, join(target_folder, file))

\* processing_error with the exception caught by the handler around
\* os.makedirs, as if the classifier were called inside that try.
processing_error_as_mkdir_failed(f, src) ==
    Outcome("mkdir_failed", f, FALSE, src, src, src, FALSE, "na", "", FALSE)

\* except Exception as e: logging.error(...); summary['processing_error'] += 1
\* The handler of the loop body; the next entry follows.
processing_error(f, src) ==
    Outcome("processing_error", f, FALSE, src, src, src, FALSE, "na", "", FALSE)

\* target_folder taken relative to the working directory of the process.
target_folder_in_cwd(folder, subfolder) == subfolder

\* target_folder = os.path.join(folder, subfolder)
target_folder(folder, subfolder) == folder \o subfolder

\* no_extension counting the file as moved.
no_extension_counted_moved(f, src) ==
    Outcome("moved", f, FALSE, src, src, src, FALSE, "na", "", FALSE)

\* if not ext: summary['no_extension'] += 1; continue
no_extension(f, src) ==
    Outcome("no_extension", f, FALSE, src, src, src, FALSE, "na", "", FALSE)

\* name, ext = os.path.splitext(file); ext = ext.lower()
\* if not ext: <no_extension>
\* subfolder = organize_by_metadata(src, ext, app_config)
\* organize_by_metadata calls app_config.get(...) before its try: when
\* app_config is not a dict the AttributeError leaves it and reaches the
\* handler of the loop body.
process_file(f, app_config, preview, folder, file, reply) ==
    IF Lower(splitext(file)[2]) = ""
    THEN no_extension(f, join(folder, file))
    ELSE IF app_config.type # "dict"
    THEN processing_error(f, join(folder, file))
    ELSE with_target(f, app_config, preview, folder, file, reply,
                     join(folder, file),
                     target_folder(folder,
                                   organize_by_metadata(f, join(folder, file),
                                                        Lower(splitext(file)[2]),
                                                        app_config)))

\* ProcessingThread.process_single_folder.folder_callback: counts the file,
\* then raises InterruptedError when a stop was requested.
folder_callback(processed, stop) ==
    [processed_files |-> processed + 1, raised |-> stop]

(***************************************************************************)
(* The inputs of a run.                                                    *)
(***************************************************************************)
Config(default_action) ==
    [type |-> "dict",
     file_categories |->
        << [category |-> "Images", extensions |-> {".jpg", ".png"}],
           [category |-> "Audio", extensions |-> {".mp3"}],
           [category |-> "Documents", extensions |-> {".txt", ".docx"}],
           [category |-> "Video", extensions |-> {".mp4"}] >>,
     subfolders |-> (".docx" :> "Word"),
     default_duplicate_action |-> default_action]

\* What json.load returns for a configuration file that holds a JSON list:
\* main.py hands it to organize_files as it is.
NotADict == [type |-> "list"]

Replies == {"", "R", "keep", "raise"}

Root == <<>>

SubDir == <<Lit("sub")>>

DocDir == <<Lit("Documents")>>

OtherDocs == <<Lit("Documents"), Lit("Other_Documents")>>

FileNames ==
    <<File("a", ".txt"), File("b", ".TXT"), File("c", ".xyz"),
      File("d", ".txt"), File("e", ".docx")>>

Faults ==
    {"none", "src_unreadable", "dest_unreadable", "unmovable", "root_readonly",
     "sub_unlistable", "root_missing", "root_is_file", "root_unlistable"}

\* The filesystem before the run: nRoot files in the folder, an extra entry
\* (a file without extension, a broken link, p.jpg, which is no image PIL
\* can open, or q.mp3, which TinyTag cannot read),
\* a subfolder with nSub files (none when nSub = -1), and what is already in
\* Documents/Other_Documents: nothing ("none"), the empty directory ("dir"),
\* or a.txt with the same or another content, and these _copy<N> files.
InitFS(nRoot, extra, nSub, pre, copies, fault) ==
    LET a == FileNames[1]
        rootFiles == {<<FileNames[i]>> : i \in 1..nRoot}
        subFiles == IF nSub < 0 THEN {}
                    ELSE {join(SubDir, FileNames[i]) : i \in 1..nSub}
        subDirs == IF nSub < 0 THEN {} ELSE {SubDir}
        extras == CASE extra = "noext" -> {<<File("README", "")>>}
                    [] extra = "other" -> {<<Lit("dangling")>>}
                    [] extra = "image" -> {<<File("p", ".jpg")>>}
                    [] extra = "audio" -> {<<File("q", ".mp3")>>}
                    [] OTHER -> {}
        preDirs == IF pre = "none" THEN {} ELSE {DocDir, OtherDocs}
        preFile == IF pre \in {"same", "diff"} THEN {join(OtherDocs, a)} ELSE {}
        preCopies == {join(OtherDocs, CopyName(splitext(a)[1], c, splitext(a)[2])) :
                        c \in copies}
        node(p) ==
            CASE p = Root -> DirNode(fault # "root_unlistable", fault # "root_readonly")
              [] p \in rootFiles ->
                   FileNode(1, 1, ~(fault = "src_unreadable" /\ p = <<a>>),
                            ~(fault = "unmovable" /\ p = <<a>>), NoMeta)
              [] p \in subFiles -> FileNode(1, 1, TRUE, TRUE, NoMeta)
              [] p \in subDirs -> DirNode(fault # "sub_unlistable", TRUE)
              [] p = <<File("README", "")>> -> FileNode(1, 1, TRUE, TRUE, NoMeta)
              [] p = <<Lit("dangling")>> -> OtherNode
              [] p \in preDirs -> DirNode(TRUE, TRUE)
              [] p \in preFile ->
                   FileNode(IF pre = "same" THEN 1 ELSE 2, 2,
                            fault # "dest_unreadable", TRUE, NoMeta)
              [] OTHER -> FileNode(1, 3, TRUE, TRUE, NoMeta)
        paths == {Root} \cup rootFiles \cup subFiles \cup subDirs \cup extras
                 \cup preDirs \cup preFile \cup preCopies
    IN  CASE fault = "root_missing" -> [p \in {} |-> OtherNode]
          [] fault = "root_is_file" -> [p \in {Root} |-> FileNode(1, 1, TRUE, TRUE, NoMeta)]
          [] OTHER -> [p \in paths |-> node(p)]

\* No preview run came before this run.
NoPreview == [done |-> FALSE, summary |-> EmptySummary]

NoLast ==
    [kind |-> "none", called |-> FALSE, src |-> Root, orig |-> Root, dest |-> Root,
     existed |-> FALSE, hash |-> "na", action |-> "", moved |-> FALSE,
     cb_raised |-> FALSE, stop_seen |-> FALSE]

Init ==
    \E nRoot \in 0..MaxRootFiles, nSub \in (-1)..MaxSubFiles,
       extra \in {"none", "noext", "other", "image", "audio"},
       pre \in {"none", "dir", "same", "diff"},
       copies \in SUBSET (1..MaxCopy), fault \in Faults,
       default_action \in {"k", "o", "r"}, config_type \in {"dict", "list"} :
        \* a populated destination comes with a folder of files only
        /\ pre # "none" => nRoot >= 1 /\ nSub = -1 /\ extra = "none"
        /\ pre \in {"none", "dir"} => copies = {}
        /\ extra \in {"image", "audio"} =>
               nSub = -1 /\ fault \in {"none", "root_readonly"}
        \* the default action is read only for a destination with equal
        \* content
        /\ pre # "same" => default_action = "k"
        \* at most one fault, where it can be met
        /\ fault \in {"src_unreadable", "dest_unreadable"} =>
               pre \in {"same", "diff"} /\ copies = {}
        /\ fault = "unmovable" => nRoot >= 1 /\ pre = "none"
        /\ fault = "root_readonly" => (nRoot >= 1 \/ extra \in {"image", "audio"}) /\ pre = "none"
        /\ fault = "sub_unlistable" => nSub >= 0
        /\ fault \in {"root_missing", "root_is_file", "root_unlistable"} =>
               nRoot = 0 /\ nSub = -1 /\ extra = "none" /\ pre = "none"
        /\ fs = InitFS(nRoot, extra, nSub, pre, copies, fault)
        \* a configuration that is no dict is met on a tree without faults
        /\ config_type = "list" => pre = "none" /\ fault = "none"
        /\ cfg = IF config_type = "dict" THEN Config(default_action) ELSE NotADict
        /\ recursive \in BOOLEAN
        /\ preview_mode \in BOOLEAN
        /\ stack = <<>>
        /\ pc = "init"
        /\ result = EmptySummary
        /\ stop_requested = FALSE
        /\ processed_files = 0
        /\ last = NoLast
        /\ steps = 0
        /\ fs0 = fs
        /\ previewed = NoPreview
        /\ classified = <<>>
        /\ counted = EmptySummary
        /\ par = <<>>
        /\ second_run = FALSE
        /\ thread = <<>>

(***************************************************************************)
(* organize_files.                                                         *)
(***************************************************************************)
Top == stack[Len(stack)]

\* prelude with PermissionError of os.listdir taken by the general handler.
prelude_permission_as_error(f, folder) ==
    IF ~exists(f, folder) THEN "error"
    ELSE IF ~isdir(f, folder) THEN "error"
    ELSE IF ~f[folder].readable THEN "error"
    ELSE "ok"

\* The checks before the loop: "ok", or the key of the one-key summary
\* returned at once.
prelude(f, folder) ==
    IF ~exists(f, folder) THEN "error"
    ELSE IF ~isdir(f, folder) THEN "error"
    ELSE IF ~f[folder].readable THEN "permission_denied"
    ELSE "ok"

\* files = os.listdir(folder); summary = defaultdict(int)
NewFrame(f, folder) ==
    [folder |-> folder, todo |-> listdir(f, folder), summary |-> EmptySummary]

\* The frame of the running call once the entry `file` is dealt with and
\* summary has become s.
Advance(file, s) ==
    [stack EXCEPT ![Len(stack)] = [@ EXCEPT !.todo = @ \ {file}, !.summary = s]]

\* The outermost call of organize_files, from process_single_folder.
Start ==
    /\ pc = "init"
    /\ IF prelude(fs, Root) = "ok"
       THEN /\ stack' = <<NewFrame(fs, Root)>>
            /\ pc' = "running"
            /\ result' = result
            /\ counted' = counted
       ELSE /\ stack' = stack
            /\ pc' = "done"
            /\ result' = Inc(EmptySummary, prelude(fs, Root))
            /\ counted' = Inc(counted, prelude(fs, Root))
    /\ UNCHANGED <<fs, cfg, recursive, preview_mode, stop_requested,
                   processed_files, last, steps, fs0, previewed, classified, par,
                   second_run, thread>>

\* ProcessingThread.stop(), from the GUI thread.
Stop ==
    /\ pc = "running"
    /\ ~stop_requested
    /\ stop_requested' = TRUE
    /\ UNCHANGED <<fs, cfg, recursive, preview_mode, stack, pc, result,
                   processed_files, last, steps, fs0, previewed, classified,
                   counted, par,
                   second_run, thread>>

\* The entries still to be visited by the running call.
AllNames == IF stack = <<>> THEN {} ELSE Top.todo

Iterating(file) ==
    /\ pc = "running"
    /\ stack # <<>>
    /\ file \in Top.todo

Note(kind, src) ==
    [NoLast EXCEPT !.kind = kind, !.src = src, !.orig = src, !.dest = src,
                   !.stop_seen = stop_requested]

\* if os.path.isdir(src) and recursive: the recursive call lists src.
EnterSubdir ==
    \E file \in AllNames :
    LET src == join(Top.folder, file)
    IN  /\ Iterating(file)
        /\ isdir(fs, src) /\ recursive
        /\ prelude(fs, src) = "ok"
        /\ stack' = Append(Advance(file, Top.summary), NewFrame(fs, src))
        /\ last' = Note("recurse", src)
        /\ steps' = steps + 1
        /\ UNCHANGED <<fs, cfg, recursive, preview_mode, pc, result,
                       stop_requested, processed_files, fs0, previewed, classified,
                   counted, par,
                   second_run, thread>>

\* The recursive call returns a one-key summary at once; it is merged.
SubdirFatal ==
    \E file \in AllNames :
    LET src == join(Top.folder, file)
    IN  /\ Iterating(file)
        /\ isdir(fs, src) /\ recursive
        /\ prelude(fs, src) # "ok"
        /\ stack' = Advance(file, Merge(Top.summary,
                                        Inc(EmptySummary, prelude(fs, src))))
        /\ counted' = Inc(counted, prelude(fs, src))
        /\ last' = Note("subdir_fatal", src)
        /\ steps' = steps + 1
        /\ UNCHANGED <<fs, cfg, recursive, preview_mode, pc, result,
                       stop_requested, processed_files, fs0, previewed, classified, par,
                   second_run, thread>>

\* if not os.path.isfile(src): continue
SkipEntry ==
    \E file \in AllNames :
    LET src == join(Top.folder, file)
    IN  /\ Iterating(file)
        /\ ~(isdir(fs, src) /\ recursive)
        /\ ~isfile(fs, src)
        /\ stack' = Advance(file, Top.summary)
        /\ last' = Note("skipped", src)
        /\ steps' = steps + 1
        /\ UNCHANGED <<fs, cfg, recursive, preview_mode, pc, result,
                       stop_requested, processed_files, fs0, previewed, classified,
                   counted, par,
                   second_run, thread>>

\* after_callback with a counter of its own for the files reported.
after_callback_counts_reported(summary, called, cb) ==
    IF called THEN Inc(summary, "reported") ELSE summary

\* after_callback with the exception of the callback reaching the handler
\* of the loop body, which counts a processing_error.
after_callback_uncaught(summary, called, cb) ==
    IF called /\ cb.raised THEN Inc(summary, "processing_error") ELSE summary

\* if callback: try: callback()  except Exception as e: logging.warning(...)
\* The summary after the callback: an exception of the callback is logged
\* and nothing else.
after_callback(summary, called, cb) == summary

\* The effect of one iteration over a regular file with outcome o; cb is
\* what the callback does when it is reached.
ApplyOutcome(file, o, cb) ==
    /\ fs' = o.fs
    /\ stack' = Advance(file, after_callback(Inc(Top.summary, o.kind), o.called, cb))
    /\ counted' = Inc(counted, o.kind)
    /\ processed_files' = IF o.called THEN cb.processed_files ELSE processed_files
    /\ last' = [kind |-> o.kind, called |-> o.called, src |-> o.src,
                orig |-> o.orig, dest |-> o.dest, existed |-> o.existed,
                hash |-> o.hash, action |-> o.action, moved |-> o.moved,
                cb_raised |-> o.called /\ cb.raised,
                stop_seen |-> stop_requested]
    /\ steps' = steps + 1
    /\ UNCHANGED <<cfg, recursive, preview_mode, pc, result, stop_requested,
                   fs0, previewed, classified, par,
                   second_run, thread>>

\* The body of the loop for a regular file, when its outcome is one of kinds.
FileStepOf(file, reply, kinds, o) ==
    /\ o.kind \in kinds
    /\ o.hash # "eq" => reply = ""
    /\ ApplyOutcome(file, o, folder_callback(processed_files, stop_requested))

FileStep(file, reply, kinds) ==
    /\ Iterating(file)
    /\ isfile(fs, join(Top.folder, file))
    /\ FileStepOf(file, reply, kinds,
                  process_file(fs, cfg, preview_mode, Top.folder, file, reply))

\* if not ext: summary['no_extension'] += 1; continue
NoExtension == \E file \in AllNames : FileStep(file, "", {"no_extension"})

\* an exception reached the handler of the loop body:
\* summary['processing_error'] += 1
ProcessingError == \E file \in AllNames : FileStep(file, "", {"processing_error"})

\* os.makedirs raised: summary['mkdir_failed'] += 1; continue
MkdirFailed == \E file \in AllNames : FileStep(file, "", {"mkdir_failed"})

\* a digest raised: summary['duplicate_check_failed'] += 1; continue
DuplicateCheckFailed ==
    \E file \in AllNames, reply \in Replies :
        FileStep(file, reply, {"duplicate_check_failed"})

\* action == "k": summary['duplicate_kept'] += 1; continue
DuplicateKept ==
    \E file \in AllNames, reply \in Replies :
        FileStep(file, reply, {"duplicate_kept"})

\* preview_mode: summary['preview'] += 1, then the callback
Preview ==
    \E file \in AllNames, reply \in Replies : FileStep(file, reply, {"preview"})

\* move_file(src, dest): summary['moved'] or ['move_failed'] += 1, then the
\* callback
Move ==
    \E file \in AllNames, reply \in Replies :
        FileStep(file, reply, {"moved", "move_failed"})

\* return dict(summary): to the caller's loop, which merges it, or out of
\* the outermost call.
Return ==
    /\ pc = "running"
    /\ stack # <<>>
    /\ Top.todo = {}
    /\ IF Len(stack) = 1
       THEN /\ stack' = <<>>
            /\ pc' = "done"
            /\ result' = Top.summary
       ELSE /\ stack' = [SubSeq(stack, 1, Len(stack) - 1) EXCEPT ![Len(stack) - 1] =
                           [@ EXCEPT !.summary = Merge(@, Top.summary)]]
            /\ pc' = pc
            /\ result' = result
    /\ UNCHANGED <<fs, cfg, recursive, preview_mode, stop_requested,
                   processed_files, last, steps, fs0, previewed, classified,
                   counted, par,
                   second_run, thread>>

Next ==
    \/ Start
    \/ Stop
    \/ EnterSubdir
    \/ SubdirFatal
    \/ SkipEntry
    \/ NoExtension
    \/ ProcessingError
    \/ MkdirFailed
    \/ DuplicateCheckFailed
    \/ DuplicateKept
    \/ Preview
    \/ Move
    \/ Return

Spec == Init /\ [][Next]_vars

(***************************************************************************)
(* A preview run followed by the run proper on the same input, as the main *)
(* block of file_utils.py does ("Proceed with actual organization?"): the  *)
(* second call has the same folder, app_config and recursive flag, and     *)
(* preview_mode = False.  To compare the two runs on an identical initial  *)
(* filesystem the second one starts from the filesystem the first one      *)
(* started from; the summary of the preview run is kept in previewed.      *)
(***************************************************************************)
Proceed ==
    /\ pc = "done"
    /\ preview_mode
    /\ ~previewed.done
    /\ previewed' = [done |-> TRUE, summary |-> result]
    /\ preview_mode' = FALSE
    /\ fs' = fs0
    /\ pc' = "init"
    /\ stack' = <<>>
    /\ result' = EmptySummary
    /\ stop_requested' = FALSE
    /\ processed_files' = 0
    /\ last' = NoLast
    /\ steps' = 0
    /\ counted' = EmptySummary
    /\ UNCHANGED <<cfg, recursive, fs0, classified, par,
                   second_run, thread>>

RoundTripNext == Next \/ Proceed

RoundTripSpec == Init /\ [][RoundTripNext]_vars

(***************************************************************************)
(* The classifier on its own: organize_by_metadata applied, as the loop of *)
(* organize_files applies it (ext = ext.lower(), then the call), to one    *)
(* file under one rule table, up to MaxClassify times.                     *)
(***************************************************************************)
Table(file_categories, subfolders) ==
    [type |-> "dict", file_categories |-> file_categories,
     subfolders |-> subfolders, default_duplicate_action |-> "k"]

\* Rule tables: the one of Config; tables whose extension sets overlap, in
\* both orders; tables with a category handle_category has no branch for;
\* a table whose Video category lists an extension get_video_duration does
\* not support; the empty table; a table that spells an extension in upper
\* case; a table whose subfolders map an extension to the empty string.
RuleTables ==
    { Config("k"),
      Table(<< [category |-> "Images", extensions |-> {".jpg", ".png"}],
               [category |-> "Documents", extensions |-> {".jpg", ".txt"}] >>,
            (".docx" :> "Word")),
      Table(<< [category |-> "Documents", extensions |-> {".jpg", ".txt"}],
               [category |-> "Images", extensions |-> {".jpg", ".png"}] >>,
            (".docx" :> "Word")),
      Table(<< [category |-> "Archives", extensions |-> {".zip"}],
               [category |-> "Images", extensions |-> {".jpg"}] >>,
            (".docx" :> "Word")),
      Table(<< [category |-> "Archives", extensions |-> {".zip", ".mp3"}],
               [category |-> "Audio", extensions |-> {".mp3"}] >>,
            (".docx" :> "Word")),
      Table(<< [category |-> "Video", extensions |-> {".mp4", ".flv"}] >>,
            (".docx" :> "Word")),
      Table(<<>>, (".docx" :> "Word")),
      Table(<< [category |-> "Images", extensions |-> {".JPG"}] >>,
            (".docx" :> "Word")),
      Table(<< [category |-> "Documents", extensions |-> {".txt", ".docx"}] >>,
            (".txt" :> "") @@ (".docx" :> "Word")) }

Extensions ==
    {".jpg", ".JPG", ".txt", ".TXT", ".mp3", ".mp4", ".flv", ".zip", ".xyz",
     ".docx"}

\* What PIL finds in an image file: nothing it can read, or a size.
ImageMetas ==
    {NoMeta, Meta(TRUE, TRUE, 2, 3), Meta(TRUE, TRUE, 3, 2),
     Meta(TRUE, TRUE, 1, 12), Meta(TRUE, TRUE, 11, 2)}

\* What TinyTag or ffprobe finds in an audio or video file: nothing it can
\* read; no duration; a duration of 0.2 s, of 2.5 s, of -1.5 s.
DurationMetas ==
    {NoMeta, Meta(TRUE, FALSE, 0, 0), Meta(TRUE, TRUE, 2, 0),
     Meta(TRUE, TRUE, 25, 0), Meta(TRUE, TRUE, -15, 0)}

MetasFor(e) ==
    CASE Lower(e) = ".jpg" -> ImageMetas
      [] Lower(e) \in {".mp3", ".mp4", ".flv"} -> DurationMetas
      [] OTHER -> {NoMeta}

\* One file x, or two files x and y, of the same extension.
ClassifyInit ==
    \E table \in RuleTables, e \in Extensions :
    \E meta \in MetasFor(e), second \in {<<>>} \cup {<<m>> : m \in MetasFor(e)} :
        /\ fs = [p \in {Root, <<File("x", e)>>}
                       \cup (IF second = <<>> THEN {} ELSE {<<File("y", e)>>}) |->
                    CASE p = Root -> DirNode(TRUE, TRUE)
                      [] p = <<File("x", e)>> -> FileNode(1, 1, TRUE, TRUE, meta)
                      [] OTHER -> FileNode(1, 1, TRUE, TRUE, second[1])]
        /\ cfg = table
        /\ recursive = FALSE
        /\ preview_mode = FALSE
        /\ stack = <<>>
        /\ pc = "init"
        /\ result = EmptySummary
        /\ stop_requested = FALSE
        /\ processed_files = 0
        /\ last = NoLast
        /\ steps = 0
        /\ fs0 = fs
        /\ previewed = NoPreview
        /\ classified = <<>>
        /\ counted = EmptySummary
        /\ par = <<>>
        /\ second_run = FALSE
        /\ thread = <<>>

\* One call of the classifier and what it returned.
Classification(file_path, ext, t) ==
    [file_path |-> file_path, ext |-> ext, subfolder |-> t.subfolder,
     backends |-> t.backends]

\* name, ext = os.path.splitext(file); ext = ext.lower()
\* subfolder = organize_by_metadata(src, ext, app_config)
ClassifyFile(src, ext) ==
    Classification(src, ext, organize_by_metadata_traced(fs, src, ext, cfg))

Classify ==
    /\ Len(classified) < MaxClassify
    /\ \E src \in DOMAIN fs :
          /\ isfile(fs, src)
          /\ classified' = Append(classified,
                                  ClassifyFile(src, Lower(splitext(src[Len(src)])[2])))
    /\ UNCHANGED <<fs, cfg, recursive, preview_mode, stack, pc, result,
                   stop_requested, processed_files, last, steps, fs0, previewed,
                   counted, par,
                   second_run, thread>>

ClassifyNext == Classify

ClassifySpec == ClassifyInit /\ [][ClassifyNext]_vars

(***************************************************************************)
(* organize_files called again on the folder, with recursive=True and the  *)
(* same rules, once a run that is no preview has returned a summary        *)
(* without failures.                                                       *)
(***************************************************************************)
\* The keys of a summary that record a failure.
Failures ==
    {"mkdir_failed", "move_failed", "duplicate_check_failed", "processing_error",
     "permission_denied", "error"}

Rerun ==
    /\ pc = "done"
    /\ ~preview_mode
    /\ ~second_run
    /\ \A k \in Failures : Count(result, k) = 0
    /\ second_run' = TRUE
    /\ recursive' = TRUE
    /\ fs0' = fs
    /\ pc' = "init"
    /\ stack' = <<>>
    /\ result' = EmptySummary
    /\ stop_requested' = FALSE
    /\ processed_files' = 0
    /\ last' = NoLast
    /\ steps' = 0
    /\ counted' = EmptySummary
    /\ UNCHANGED <<fs, cfg, preview_mode, previewed, classified, par, thread>>

RerunNext == Next \/ Rerun

RerunSpec == Init /\ [][RerunNext]_vars

(***************************************************************************)
(* Two calls of organize_files in two threads (event/file_organizer_event: *)
(* each event starts one in a thread of its own), on two folders A and B   *)
(* of one filesystem.  Each call has its frames, its position and its      *)
(* result in par; fs is what they share.  No callback is passed, and a     *)
(* prompt of the duplicate check is answered by the empty line.            *)
(***************************************************************************)
MaxParFiles == 1

ParFolders == << <<Lit("A")>>, <<Lit("B")>> >>

\* The tree `tree` with its root at folder.
Under(folder, tree) ==
    [p \in {folder \o q : q \in DOMAIN tree} |->
        tree[SubSeq(p, Len(folder) + 1, Len(p))]]

\* What a folder holds before the calls: files, a file without extension,
\* a subfolder (listable or not), a file of the same content already at the
\* destination.
ParTrees ==
    {InitFS(nRoot, extra, nSub, pre, {}, fault) :
        nRoot \in 0..MaxParFiles, extra \in {"none", "noext"},
        nSub \in {-1, 1}, pre \in {"none"}, fault \in {"none", "sub_unlistable"}}
    \cup {InitFS(1, "none", -1, "same", {}, "none")}

ParInit ==
    \E treeA \in ParTrees, treeB \in ParTrees, default_action \in {"k", "o", "r"} :
        /\ fs = Under(ParFolders[1], treeA) @@ Under(ParFolders[2], treeB)
                @@ (Root :> DirNode(TRUE, TRUE))
        /\ cfg = Config(default_action)
        /\ recursive \in BOOLEAN
        /\ preview_mode \in BOOLEAN
        /\ par = [i \in 1..2 |-> [folder |-> ParFolders[i], stack |-> <<>>,
                                  pc |-> "init", result |-> EmptySummary]]
        /\ stack = <<>>
        /\ pc = "init"
        /\ result = EmptySummary
        /\ stop_requested = FALSE
        /\ processed_files = 0
        /\ last = NoLast
        /\ steps = 0
        /\ fs0 = fs
        /\ previewed = NoPreview
        /\ classified = <<>>
        /\ counted = EmptySummary
        /\ second_run = FALSE
        /\ thread = <<>>

\* What a step of one of the two calls leaves alone.
ParFrame ==
    UNCHANGED <<cfg, recursive, preview_mode, stack, pc, result, stop_requested,
                processed_files, last, steps, fs0, previewed, classified, counted,
                   second_run, thread>>

\* The frame of the running call of thread i.
ParTop(i) == par[i].stack[Len(par[i].stack)]

\* The entries still to be visited by the running call of thread i.
ParNames(i) == IF par[i].stack = <<>> THEN {} ELSE ParTop(i).todo

ParIterating(i, file) ==
    /\ par[i].pc = "running"
    /\ par[i].stack # <<>>
    /\ file \in ParTop(i).todo

\* par once thread i has dealt with the entry `file` and its summary is s.
ParAdvance(i, file, s) ==
    [par EXCEPT ![i].stack[Len(par[i].stack)] =
                   [@ EXCEPT !.todo = @ \ {file}, !.summary = s]]

\* executor.submit(organize_files, folder, app_config, recursive=..., ...)
ParStart ==
    \E i \in 1..2 :
        /\ par[i].pc = "init"
        /\ par' = IF prelude(fs, par[i].folder) = "ok"
                  THEN [par EXCEPT ![i].stack = <<NewFrame(fs, par[i].folder)>>,
                                   ![i].pc = "running"]
                  ELSE [par EXCEPT ![i].pc = "done",
                                   ![i].result = Inc(EmptySummary,
                                                     prelude(fs, par[i].folder))]
        /\ fs' = fs
        /\ ParFrame

\* if os.path.isdir(src) and recursive: the recursive call lists src.
ParEnterSubdir ==
    \E i \in 1..2 : \E file \in ParNames(i) :
        /\ ParIterating(i, file)
        /\ isdir(fs, join(ParTop(i).folder, file)) /\ recursive
        /\ prelude(fs, join(ParTop(i).folder, file)) = "ok"
        /\ par' = [ParAdvance(i, file, ParTop(i).summary) EXCEPT ![i].stack =
                      Append(@, NewFrame(fs, join(ParTop(i).folder, file)))]
        /\ fs' = fs
        /\ ParFrame

\* The recursive call returns a one-key summary at once; it is merged.
ParSubdirFatal ==
    \E i \in 1..2 : \E file \in ParNames(i) :
        /\ ParIterating(i, file)
        /\ isdir(fs, join(ParTop(i).folder, file)) /\ recursive
        /\ prelude(fs, join(ParTop(i).folder, file)) # "ok"
        /\ par' = ParAdvance(i, file,
                             Merge(ParTop(i).summary,
                                   Inc(EmptySummary,
                                       prelude(fs, join(ParTop(i).folder, file)))))
        /\ fs' = fs
        /\ ParFrame

\* if not os.path.isfile(src): continue
ParSkipEntry ==
    \E i \in 1..2 : \E file \in ParNames(i) :
        /\ ParIterating(i, file)
        /\ ~(isdir(fs, join(ParTop(i).folder, file)) /\ recursive)
        /\ ~isfile(fs, join(ParTop(i).folder, file))
        /\ par' = ParAdvance(i, file, ParTop(i).summary)
        /\ fs' = fs
        /\ ParFrame

\* The effect of the outcome o of one iteration of thread i.
ParApply(i, file, o) ==
    /\ fs' = o.fs
    /\ par' = ParAdvance(i, file, Inc(ParTop(i).summary, o.kind))

\* The body of the loop for a regular file.
ParFile ==
    \E i \in 1..2 : \E file \in ParNames(i) :
        /\ ParIterating(i, file)
        /\ isfile(fs, join(ParTop(i).folder, file))
        /\ ParApply(i, file,
                    process_file(fs, cfg, preview_mode, ParTop(i).folder, file, ""))
        /\ ParFrame

\* return dict(summary): to the caller's loop, or out of the thread's call.
ParReturn ==
    \E i \in 1..2 :
        /\ par[i].pc = "running"
        /\ par[i].stack # <<>>
        /\ ParTop(i).todo = {}
        /\ par' = IF Len(par[i].stack) = 1
                  THEN [par EXCEPT ![i].stack = <<>>, ![i].pc = "done",
                                   ![i].result = ParTop(i).summary]
                  ELSE [par EXCEPT ![i].stack =
                           [SubSeq(@, 1, Len(@) - 1) EXCEPT ![Len(@) - 1] =
                              [@ EXCEPT !.summary = Merge(@, ParTop(i).summary)]]]
        /\ fs' = fs
        /\ ParFrame

ParallelNext ==
    \/ ParStart
    \/ ParEnterSubdir
    \/ ParSubdirFatal
    \/ ParSkipEntry
    \/ ParFile
    \/ ParReturn

ParallelSpec == ParInit /\ [][ParallelNext]_vars

(***************************************************************************)
(* organize_files as one sequential computation: what a call can return    *)
(* and the filesystem it can leave when nothing else runs, one Alone(...)  *)
(* for each order in which os.listdir can give the entries of a folder.    *)
(***************************************************************************)
Alone(f, summary) == [fs |-> f, summary |-> summary]

RECURSIVE organize_files_alone(_, _, _, _, _)
RECURSIVE loop_alone(_, _, _, _, _, _, _)
RECURSIVE entry_alone(_, _, _, _, _, _, _, _)

\* After the body of the loop gave outcome o.
after_file_alone(o, app_config, rec, preview, folder, todo, summary) ==
    loop_alone(o.fs, app_config, rec, preview, folder, todo, Inc(summary, o.kind))

\* One iteration: over the entry `file`, todo being what is left after it.
entry_alone(f, app_config, rec, preview, folder, file, todo, summary) ==
    IF isdir(f, join(folder, file)) /\ rec
    THEN UNION {loop_alone(r.fs, app_config, rec, preview, folder, todo,
                           Merge(summary, r.summary)) :
                  r \in organize_files_alone(f, app_config, rec, preview,
                                             join(folder, file))}
    ELSE IF ~isfile(f, join(folder, file))
    THEN loop_alone(f, app_config, rec, preview, folder, todo, summary)
    ELSE after_file_alone(process_file(f, app_config, preview, folder, file, ""),
                          app_config, rec, preview, folder, todo, summary)

\* for file in files: the entries in any order.
loop_alone(f, app_config, rec, preview, folder, todo, summary) ==
    IF todo = {} THEN {Alone(f, summary)}
    ELSE UNION {entry_alone(f, app_config, rec, preview, folder, file,
                            todo \ {file}, summary) : file \in todo}

organize_files_alone(f, app_config, rec, preview, folder) ==
    IF prelude(f, folder) # "ok"
    THEN {Alone(f, Inc(EmptySummary, prelude(f, folder)))}
    ELSE loop_alone(f, app_config, rec, preview, folder, listdir(f, folder),
                    EmptySummary)

(***************************************************************************)
(* gui/processing_thread.py: ProcessingThread.run over its list of folders *)
(* and BatchProcessingThread.run over its batches, with stop() called from *)
(* the GUI thread at any time.  thread holds the fields of the object, its *)
(* position in run, and the signals emitted so far; stop_requested and     *)
(* processed_files are the fields of that name.  A folder is processed by  *)
(* one call of organize_files; the InterruptedError of folder_callback     *)
(* does not leave that call, so the call returns its summary whenever the  *)
(* stop is requested.                                                      *)
(***************************************************************************)
\* What a folder of the thread holds: up to MaxParFiles files, or README, a
\* file and a subfolder that cannot be listed.
ThreadTrees ==
    {InitFS(nRoot, "none", -1, "none", {}, "none") : nRoot \in 0..MaxParFiles}
    \cup {InitFS(1, "noext", 1, "none", {}, "sub_unlistable")}

\* The folders of a ProcessingThread, as the one batch of its run.
FolderLists == { << ParFolders[1] >>, << ParFolders[1], ParFolders[2] >> }

\* The batches of a BatchProcessingThread.
FolderBatches ==
    { << << ParFolders[1] >>, << ParFolders[2] >> >>,
      << << ParFolders[1], ParFolders[2] >> >>,
      << << ParFolders[1] >>, << >>, << ParFolders[2] >> >> }

\* ProcessingThread.__init__ / BatchProcessingThread.__init__
NewThread(class, folder_batches) ==
    [class |-> class, folder_batches |-> folder_batches, batch |-> 0,
     folders |-> IF class = "ProcessingThread" THEN folder_batches[1] ELSE <<>>,
     i |-> 0, summary |-> EmptySummary,
     pc |-> IF class = "ProcessingThread" THEN "run" ELSE "batch_head",
     emitted |-> <<>>, total |-> EmptySummary]

ThreadInit ==
    \E treeA \in ThreadTrees, treeB \in ThreadTrees,
       class \in {"ProcessingThread", "BatchProcessingThread"} :
    \E folder_batches \in IF class = "ProcessingThread"
                          THEN {<<l>> : l \in FolderLists} ELSE FolderBatches :
        /\ fs = Under(ParFolders[1], treeA) @@ Under(ParFolders[2], treeB)
                @@ (Root :> DirNode(TRUE, TRUE))
        /\ cfg = Config("k")
        /\ recursive \in BOOLEAN
        /\ preview_mode \in BOOLEAN
        /\ thread = NewThread(class, folder_batches)
        /\ stop_requested = FALSE
        /\ processed_files = 0
        /\ stack = <<>>
        /\ pc = "init"
        /\ result = EmptySummary
        /\ last = NoLast
        /\ steps = 0
        /\ fs0 = fs
        /\ previewed = NoPreview
        /\ classified = <<>>
        /\ counted = EmptySummary
        /\ par = <<>>
        /\ second_run = FALSE

\* What a step of the thread or of the GUI leaves alone.
ThreadFrame ==
    UNCHANGED <<cfg, recursive, preview_mode, stack, pc, result, last, steps, fs0,
                previewed, classified, counted, par, second_run>>

\* signal.emit(arg)
Emit(signal, arg) == Append(thread.emitted, [signal |-> signal, arg |-> arg])

\* ProcessingThread.stop(), from the GUI thread.
ThreadStop ==
    /\ thread # <<>>
    /\ thread.pc # "finished"
    /\ ~stop_requested
    /\ stop_requested' = TRUE
    /\ UNCHANGED <<fs, processed_files, thread>>
    /\ ThreadFrame

\* BatchProcessingThread.run: for batch_idx, folder_batch in enumerate(...):
\* if self.is_stop_requested(): break;  self.folders = folder_batch;
\* super().run()
BatchHead ==
    /\ thread # <<>>
    /\ thread.pc = "batch_head"
    /\ thread' = IF thread.batch >= Len(thread.folder_batches) \/ stop_requested
                 THEN [thread EXCEPT !.pc = "batch_finally"]
                 ELSE [thread EXCEPT !.batch = @ + 1,
                                     !.folders = thread.folder_batches[thread.batch + 1],
                                     !.pc = "run"]
    /\ UNCHANGED <<fs, stop_requested, processed_files>>
    /\ ThreadFrame

\* ProcessingThread.run up to the loop: self.processed_files = 0;
\* self.summary = defaultdict(int); count the files;
\* if self.is_stop_requested(): emit "Processing cancelled"; return
RunStart ==
    /\ thread # <<>>
    /\ thread.pc = "run"
    /\ processed_files' = 0
    /\ thread' = IF stop_requested
                 THEN [thread EXCEPT !.summary = EmptySummary,
                                     !.emitted = Emit("status_changed",
                                                      "Processing cancelled"),
                                     !.pc = "finally"]
                 ELSE [thread EXCEPT !.summary = EmptySummary, !.i = 1,
                                     !.pc = "head"]
    /\ UNCHANGED <<fs, stop_requested>>
    /\ ThreadFrame

\* next_folder without the test of the stop flag.
next_folder_unchecked(stop, i, folders) ==
    IF i > Len(folders) THEN "final_status" ELSE "in_folder"

\* for i, folder in enumerate(self.folders):
\* if self.is_stop_requested(): emit "Processing stopped"; break
\* The position after the head of the loop.
next_folder(stop, i, folders) ==
    IF i > Len(folders) THEN "final_status"
    ELSE IF stop THEN "stopped"
    ELSE "in_folder"

\* The head of the loop over the folders: the flag is read, and the call of
\* process_single_folder follows when it was false.
FolderHead ==
    /\ thread # <<>>
    /\ thread.pc = "head"
    /\ thread' = IF next_folder(stop_requested, thread.i, thread.folders) = "stopped"
                 THEN [thread EXCEPT !.emitted = Emit("status_changed",
                                                      "Processing stopped"),
                                     !.pc = "final_status"]
                 ELSE [thread EXCEPT !.pc = next_folder(stop_requested, thread.i,
                                                        thread.folders)]
    /\ UNCHANGED <<fs, stop_requested, processed_files>>
    /\ ThreadFrame

\* The number of calls of folder_callback in a call that returned summary s.
Callbacks(s) == Count(s, "moved") + Count(s, "move_failed") + Count(s, "preview")

\* The thread once process_single_folder returned the result r of
\* organize_files: for key, value in folder_summary.items():
\* self.summary[key] += value
after_folder(r) ==
    [thread EXCEPT !.summary = Merge(@, r.summary),
                   !.total = Merge(@, r.summary),
                   !.i = @ + 1,
                   !.pc = "head"]

\* folder_summary = self.process_single_folder(folder), and the merge
FolderDone ==
    /\ thread # <<>>
    /\ thread.pc = "in_folder"
    /\ \E r \in organize_files_alone(fs, cfg, recursive, preview_mode,
                                     thread.folders[thread.i]) :
          /\ fs' = r.fs
          /\ processed_files' = processed_files + Callbacks(r.summary)
          /\ thread' = after_folder(r)
    /\ UNCHANGED stop_requested
    /\ ThreadFrame

\* if not self.is_stop_requested(): emit "Preview completed" or
\* "Processing completed"
FinalStatus ==
    /\ thread # <<>>
    /\ thread.pc = "final_status"
    /\ thread' = IF stop_requested
                 THEN [thread EXCEPT !.pc = "finally"]
                 ELSE [thread EXCEPT !.emitted =
                                        Emit("status_changed",
                                             IF preview_mode THEN "Preview completed"
                                             ELSE "Processing completed"),
                                     !.pc = "finally"]
    /\ UNCHANGED <<fs, stop_requested, processed_files>>
    /\ ThreadFrame

\* finally: self.processing_finished.emit(dict(self.summary)); run returns,
\* to QThread or to the loop of BatchProcessingThread.run.
RunFinally ==
    /\ thread # <<>>
    /\ thread.pc = "finally"
    /\ thread' = [thread EXCEPT !.emitted = Emit("processing_finished", thread.summary),
                                !.pc = IF thread.class = "ProcessingThread"
                                       THEN "finished" ELSE "batch_head"]
    /\ UNCHANGED <<fs, stop_requested, processed_files>>
    /\ ThreadFrame

\* BatchProcessingThread.run, finally:
\* self.processing_finished.emit(dict(self.summary))
BatchFinally ==
    /\ thread # <<>>
    /\ thread.pc = "batch_finally"
    /\ thread' = [thread EXCEPT !.emitted = Emit("processing_finished", thread.summary),
                                !.pc = "finished"]
    /\ UNCHANGED <<fs, stop_requested, processed_files>>
    /\ ThreadFrame

ThreadNext ==
    \/ ThreadStop
    \/ BatchHead
    \/ RunStart
    \/ FolderHead
    \/ FolderDone
    \/ FinalStatus
    \/ RunFinally
    \/ BatchFinally

ThreadSpec == ThreadInit /\ [][ThreadNext]_vars

(***************************************************************************)
(* Vocabulary of the properties.                                           *)
(***************************************************************************)
SummaryKeys ==
    {"moved", "preview", "duplicate_kept", "duplicate_check_failed",
     "no_extension", "mkdir_failed", "move_failed", "processing_error",
     "permission_denied", "error"}

\* A loop iteration is completed by this step.
Iterated == steps' = steps + 1

\* The summary of the running call.
Running == IF stack = <<>> THEN EmptySummary ELSE Top.summary

\* This step adds one to counter k of the running call and changes no other.
OnlyIncrements(k) ==
    /\ Len(stack') = Len(stack)
    /\ \A x \in SummaryKeys :
          Count(Running', x) = Count(Running, x) + (IF x = k THEN 1 ELSE 0)

\* The loop goes on: the call is still running, and what is left to visit
\* is what was left before, less the entry just dealt with.
Continues ==
    /\ pc' = "running"
    /\ Len(stack') = Len(stack)
    /\ Top'.folder = Top.folder
    /\ Top'.todo = Top.todo \ {last'.src[Len(last'.src)]}

\* In filesystem f, the digest of p or of q cannot be computed.
DigestFails(f, p, q) ==
    \/ ~(isfile(f, p) /\ f[p].readable)
    \/ ~(isfile(f, q) /\ f[q].readable)

\* In filesystem f, p and q are readable files with the same bytes.
SameBytes(f, p, q) ==
    /\ ~DigestFails(f, p, q)
    /\ f[p].content = f[q].content

\* In filesystem f, p and q are readable files with different bytes.
DifferentBytes(f, p, q) ==
    /\ ~DigestFails(f, p, q)
    /\ f[p].content # f[q].content

\* The path d is "<base>_copy<N><ext>" beside orig, for the name of src.
IsCopy(d, src, orig, N) ==
    d = join(parent(orig), CopyName(splitext(src[Len(src)])[1], N,
                                    splitext(src[Len(src)])[2]))

\* Every entry of f other than src is in g as it was in f.
NothingReplaced(f, g, src) ==
    \A p \in DOMAIN f \ {src} : p \in DOMAIN g /\ g[p] = f[p]

(***************************************************************************)
(* C1.  When the destination exists and the digests of source and          *)
(* destination differ, the source goes to a fresh _copyN name and the file *)
(* that was at the destination keeps its content, whatever the default     *)
(* duplicate action.                                                       *)
(***************************************************************************)
C1_DifferentContentIsRenamed ==
    [][(/\ Iterated
        /\ ~preview_mode
        /\ last'.existed
        /\ DifferentBytes(fs, last'.src, last'.orig))
       => (/\ \E N \in 1..(Cardinality(DOMAIN fs) + 1) :
                  /\ IsCopy(last'.dest, last'.src, last'.orig, N)
                  /\ ~exists(fs, last'.dest)
           /\ last'.orig \in DOMAIN fs'
           /\ fs'[last'.orig].content = fs[last'.orig].content)]_vars

(***************************************************************************)
(* C2.  A run with preview_mode = TRUE leaves the filesystem as it was     *)
(* when the run started: no file is moved and no directory is created.     *)
(***************************************************************************)
C2_PreviewChangesNothing == preview_mode => fs = fs0

(***************************************************************************)
(* C3.  Once the stop flag is set, no further entry is processed: the      *)
(* flag is checked at the start of each iteration and before each          *)
(* recursion.                                                              *)
(***************************************************************************)
C3_NoIterationAfterStop == [][stop_requested => steps' = steps]_vars

(***************************************************************************)
(* C4.  move_file on a source that shutil.move can relocate completes      *)
(* without error: the file is at dest, no longer at src, and dest has the  *)
(* timestamps the source had.                                              *)
(***************************************************************************)
C4_MoveFileCompletes ==
    [][(Iterated /\ last'.moved)
       => (/\ last'.kind = "moved"
           /\ isfile(fs', last'.dest)
           /\ last'.src \notin DOMAIN fs'
           /\ fs'[last'.dest].mtime = fs[last'.src].mtime)]_vars

(***************************************************************************)
(* C5.  In a non-preview run over a directory of N files with extensions,  *)
(* exactly one of which cannot be moved, the summary returned has          *)
(* moved = N - 1 and move_failed = 1.                                      *)
(***************************************************************************)
RootFilesWithExt ==
    {p \in DOMAIN fs0 : Len(p) = 1 /\ fs0[p].type = "file" /\ p[1].e # ""}

OneUnmovable ==
    /\ isdir(fs0, Root) /\ fs0[Root].readable /\ fs0[Root].writable
    /\ DocDir \notin DOMAIN fs0
    /\ Cardinality({p \in RootFilesWithExt : ~fs0[p].writable}) = 1

C5_OneFailureIsIsolated ==
    (pc = "done" /\ ~preview_mode /\ ~recursive /\ OneUnmovable)
    => (/\ Count(result, "moved") = Cardinality(RootFilesWithExt) - 1
        /\ Count(result, "move_failed") = 1)

(***************************************************************************)
(* C6.  A recursive non-preview run over a tree without collisions and     *)
(* without failures returns moved = the number of files with an extension  *)
(* in the whole tree.                                                      *)
(***************************************************************************)
FilesWithExt ==
    {p \in DOMAIN fs0 : fs0[p].type = "file" /\ p[Len(p)].e # ""}

CleanTree ==
    /\ isdir(fs0, Root)
    /\ DocDir \notin DOMAIN fs0
    /\ \A p \in DOMAIN fs0 :
          fs0[p].type # "other" => fs0[p].readable /\ fs0[p].writable

C6_MovedCountsTheTree ==
    (pc = "done" /\ ~preview_mode /\ recursive /\ CleanTree)
    => Count(result, "moved") = Cardinality(FilesWithExt)

(***************************************************************************)
(* C7.  When the destination exists and a digest cannot be computed, the   *)
(* file is not moved, the filesystem is unchanged, duplicate_check_failed  *)
(* is incremented by one and the loop goes on with the next entry.         *)
(***************************************************************************)
C7_DigestFailureSkipsTheFile ==
    [][(/\ Iterated
        /\ last'.existed
        /\ DigestFails(fs, last'.src, last'.orig))
       => (/\ fs' = fs
           /\ ~last'.moved
           /\ OnlyIncrements("duplicate_check_failed")
           /\ Continues)]_vars

C7_Witness ==
    /\ last.kind = "duplicate_check_failed"
    /\ last.existed
    /\ DigestFails(fs, last.src, last.orig)
    /\ pc = "running"

(***************************************************************************)
(* C8.  A true duplicate resolved with "r" goes to <base>_copy<N><ext>     *)
(* for the smallest N >= 1 whose path does not exist in the destination    *)
(* folder, and no existing entry is replaced.                              *)
(***************************************************************************)
C8_RenameTakesSmallestFreeCopy ==
    [][(/\ Iterated
        /\ last'.existed
        /\ SameBytes(fs, last'.src, last'.orig)
        /\ last'.action = "r")
       => (/\ \E N \in 1..(Cardinality(DOMAIN fs) + 1) :
                  /\ IsCopy(last'.dest, last'.src, last'.orig, N)
                  /\ ~exists(fs, last'.dest)
                  /\ \A M \in 1..(N - 1) :
                        \E d \in DOMAIN fs :
                            IsCopy(d, last'.src, last'.orig, M) /\ exists(fs, d)
           /\ NothingReplaced(fs, fs', last'.src)
           /\ last'.moved =>
                  /\ last'.src \notin DOMAIN fs'
                  /\ isfile(fs', last'.dest)
                  /\ fs'[last'.dest].content = fs[last'.src].content)]_vars

\* With a.txt, a_copy1.txt and a_copy2.txt in the destination folder the
\* file has landed at a_copy3.txt.
C8_Witness ==
    /\ last.action = "r"
    /\ last.moved
    /\ last.orig = join(OtherDocs, FileNames[1])
    /\ IsCopy(last.dest, last.src, last.orig, 3)
    /\ isfile(fs, last.dest)
    /\ \A M \in 1..2 : isfile(fs0, join(OtherDocs, CopyName(Lit("a"), M, ".txt")))

(***************************************************************************)
(* C9.  A true duplicate resolved with "k" is skipped: the filesystem is   *)
(* unchanged, duplicate_kept is incremented by one, and no other counter   *)
(* (moved, preview, ...) changes.                                          *)
(***************************************************************************)
C9_KeepSkipsTheMove ==
    [][(/\ Iterated
        /\ last'.existed
        /\ SameBytes(fs, last'.src, last'.orig)
        /\ last'.action = "k")
       => (/\ fs' = fs
           /\ ~last'.moved
           /\ OnlyIncrements("duplicate_kept"))]_vars

C9_Witness ==
    /\ last.kind = "duplicate_kept"
    /\ last.action = "k"
    /\ SameBytes(fs, last.src, last.orig)

(***************************************************************************)
(* C10.  For a true duplicate exactly one of rename, overwrite and keep    *)
(* happens, chosen by the decision returned: "r" renames, "k" keeps, "o"   *)
(* hands the original destination path to the move, which replaces the     *)
(* file there.                                                             *)
(***************************************************************************)
Kept == last'.kind = "duplicate_kept" /\ fs' = fs

Renamed ==
    /\ last'.kind \in {"moved", "move_failed", "preview"}
    /\ last'.dest # last'.orig
    /\ ~exists(fs, last'.dest)
    /\ NothingReplaced(fs, fs', last'.src)

Overwrote ==
    /\ last'.kind \in {"moved", "move_failed", "preview"}
    /\ last'.dest = last'.orig
    /\ last'.moved =>
           /\ last'.src \notin DOMAIN fs'
           /\ fs'[last'.orig].content = fs[last'.src].content
           /\ fs'[last'.orig].mtime = fs[last'.src].mtime

C10_ExactlyOneResolution ==
    [][(/\ Iterated
        /\ last'.existed
        /\ SameBytes(fs, last'.src, last'.orig)
        /\ last'.action # "")
       => (/\ Cardinality({i \in 1..3 : \/ i = 1 /\ Renamed
                                        \/ i = 2 /\ Overwrote
                                        \/ i = 3 /\ Kept}) = 1
           /\ last'.action = "r" => Renamed
           /\ last'.action = "o" => Overwrote
           /\ last'.action = "k" => Kept)]_vars

C10_Witness ==
    /\ last.action = "o"
    /\ last.moved
    /\ last.dest = last.orig
    /\ isfile(fs, last.orig)
    /\ fs[last.orig].mtime = fs0[last.src].mtime
    /\ fs0[last.orig].mtime # fs0[last.src].mtime
    /\ last.src \notin DOMAIN fs

C12_CallbackExceptionIsSwallowed ==
    [][(Iterated /\ last'.cb_raised)
       => (/\ last'.kind \in {"moved", "move_failed", "preview"}
           /\ OnlyIncrements(last'.kind)
           /\ Count(Running', "processing_error") = Count(Running, "processing_error")
           /\ Continues)]_vars

\* The callback raised for one file, and a later entry was dealt with.
C12_Witness ==
    /\ last.stop_seen
    /\ steps >= 2
    /\ processed_files >= 2
    /\ last.cb_raised
    /\ Count(Running, "processing_error") = 0

(***************************************************************************)
(* C13.  An exception raised while one directory entry is processed, and   *)
(* handled by no inner handler, is converted into one processing_error     *)
(* increment and the loop goes on with the next entry; whatever happens to *)
(* a file, the call keeps running (no exception leaves organize_files).    *)
(***************************************************************************)
\* organize_by_metadata raises for the entry src: src is a regular file with
\* an extension and app_config has no method get.
ClassifierRaises(f, src) ==
    /\ isfile(f, src)
    /\ src[Len(src)].e # ""
    /\ cfg.type # "dict"

FatalFolder == ~isdir(fs0, Root) \/ ~fs0[Root].readable

FatalKey == IF isdir(fs0, Root) THEN "permission_denied" ELSE "error"

C14_FatalFolderReturnsOneKey ==
    (pc = "done" /\ FatalFolder)
    => (/\ DOMAIN result = {FatalKey}
        /\ result[FatalKey] = 1
        /\ fs = fs0
        /\ steps = 0
        /\ processed_files = 0)

\* The call on a directory that cannot be listed has returned.
C14_Witness ==
    /\ pc = "done"
    /\ isdir(fs0, Root)
    /\ ~fs0[Root].readable
    /\ DOMAIN result = {"permission_denied"}

(***************************************************************************)
(* C15.  A failure of os.makedirs, of the move and of the digest           *)
(* computation is each caught and counted for that file under its own key  *)
(* (mkdir_failed, move_failed, duplicate_check_failed), and the loop goes  *)
(* on with the next entry.  An exception of a metadata backend is caught   *)
(* inside the classifier: the file is classified under Unknown_Size or     *)
(* Unknown_Duration, no failure is counted for it, and the file goes on to *)
(* be moved or previewed.                                                  *)
(***************************************************************************)
FailureKeys ==
    {"mkdir_failed", "move_failed", "duplicate_check_failed", "processing_error"}

\* The category that classifies src is c: c is the first category, in the
\* order of the table, whose extensions hold the lower-case extension.
InCategory(src, c) ==
    /\ cfg.type = "dict"
    /\ \E i \in 1..Len(cfg.file_categories) :
          /\ cfg.file_categories[i].category = c
          /\ Lower(src[Len(src)].e) \in cfg.file_categories[i].extensions
          /\ \A j \in 1..(i - 1) :
                Lower(src[Len(src)].e) \notin cfg.file_categories[j].extensions

\* The metadata backend called for the file src raises.
BackendRaises(f, src) ==
    /\ isfile(f, src)
    /\ \/ InCategory(src, "Images") /\ ~get_image_size(f, src).ok
       \/ InCategory(src, "Audio") /\ ~get_audio_duration(f, src).ok
       \/ InCategory(src, "Video") /\ ~get_video_duration(f, src).ok

\* os.makedirs raises for the target folder of this iteration.
MkdirRaises == makedirs(fs, Top.folder, parent(last'.orig)).raised

\* move_file is called in this iteration and raises.
MoveRaises ==
    /\ ~preview_mode
    /\ last'.kind \in {"moved", "move_failed"}
    /\ move_file(makedirs(fs, Top.folder, parent(last'.orig)).fs, last'.src,
                 last'.dest).raised

UnknownSubkey(folder_path) ==
    /\ Len(folder_path) >= 2
    /\ folder_path[Len(folder_path)] \in {Lit("Unknown_Size"), Lit("Unknown_Duration")}

\* The claim as stated: each of the four failures is counted under a
\* failure key.
C15_EveryFileFailureIsCounted ==
    [][(/\ Iterated
        /\ \/ MkdirRaises
           \/ MoveRaises
           \/ last'.existed /\ DigestFails(fs, last'.src, last'.orig)
           \/ BackendRaises(fs, last'.src))
       => (/\ \E k \in FailureKeys : OnlyIncrements(k)
           /\ Continues)]_vars

C15_FailuresAreCountedOrFallBack ==
    [][Iterated
       => (/\ MkdirRaises
               => OnlyIncrements("mkdir_failed") /\ fs' = fs /\ Continues
           /\ MoveRaises
               => OnlyIncrements("move_failed") /\ Continues
           /\ (last'.existed /\ DigestFails(fs, last'.src, last'.orig))
               => OnlyIncrements("duplicate_check_failed") /\ Continues
           /\ BackendRaises(fs, last'.src)
               => (/\ UnknownSubkey(parent(last'.orig))
                   /\ OnlyIncrements(last'.kind)
                   /\ (preview_mode /\ ~MkdirRaises) => last'.kind = "preview"
                   /\ Continues))]_vars

\* p.jpg, whose size cannot be read, was previewed into Images/Unknown_Size
\* and no failure is counted.
C15_Witness ==
    /\ last.kind = "preview"
    /\ last.src = <<File("p", ".jpg")>>
    /\ last.dest = <<Lit("Images"), Lit("Unknown_Size"), File("p", ".jpg")>>
    /\ \A k \in FailureKeys : Count(Running, k) = 0
    /\ pc = "running"

(***************************************************************************)
(* C16.  For the same initial filesystem, rules and recursive flag, the    *)
(* preview count returned by a preview run equals the moved count returned *)
(* by a non-preview run.                                                   *)
(***************************************************************************)
C16_PreviewCountEqualsMovedCount ==
    (pc = "done" /\ previewed.done)
    => Count(result, "moved") = Count(previewed.summary, "preview")

(***************************************************************************)
(* Vocabulary of the properties of the classifier.                         *)
(***************************************************************************)
BuiltIn == {"Images", "Audio", "Documents", "Video"}

Calls == 1..Len(classified)

\* The lower-case extension of the file of call i.
LowerExt(i) == Lower(classified[i].file_path[Len(classified[i].file_path)].e)

\* Category k of the rule table holds the lower-case extension of call i.
Matches(i, k) == LowerExt(i) \in cfg.file_categories[k].extensions

\* Category k is the first one, in the declared order, that does.
FirstMatch(i, k) ==
    /\ k \in 1..Len(cfg.file_categories)
    /\ Matches(i, k)
    /\ \A j \in 1..(k - 1) : ~Matches(i, j)

\* No category does.
Unmatched(i) == \A k \in 1..Len(cfg.file_categories) : ~Matches(i, k)

\* A directory name that is not the empty string.
NonEmpty(name) == name.k \in {"size", "secs"} \/ name.s # ""

(***************************************************************************)
(* C17.  For a file whose lower-case extension is in no category of the    *)
(* rule table, organize_by_metadata returns Others, the first time and     *)
(* every time the file is classified again.                                *)
(***************************************************************************)
C17_UnmatchedGoesToOthers ==
    \A i \in Calls : Unmatched(i) => classified[i].subfolder = <<Lit("Others")>>

\* x.JPG under a table that lists ".JPG": the lower-case extension is in no
\* set, and both calls returned Others.
C17_Witness ==
    /\ Len(classified) = 2
    /\ cfg.file_categories # <<>>
    /\ classified[1].file_path = <<File("x", ".JPG")>>
    /\ Unmatched(1)
    /\ classified[1].subfolder = <<Lit("Others")>>
    /\ classified[2].subfolder = <<Lit("Others")>>

(***************************************************************************)
(* C18.  The category that classifies a file is the first one, in the      *)
(* order the rule table declares them, whose extension set holds the       *)
(* lower-case extension of the file: when sets overlap the category        *)
(* declared first decides the destination.                                 *)
(***************************************************************************)
C18_FirstDeclaredCategoryWins ==
    \A i \in Calls : \A k \in 1..Len(cfg.file_categories) :
        FirstMatch(i, k)
        => (/\ classified[i].ext = LowerExt(i)
            /\ classified[i].subfolder[1] = Lit(cfg.file_categories[k].category)
            /\ classified[i].subfolder =
                   handle_category(fs, classified[i].file_path,
                                   cfg.file_categories[k].category,
                                   classified[i].ext, cfg.subfolders))

\* x.JPG under a table where Documents comes before Images and both list
\* ".jpg": the destination is under Documents.
C18_Witness ==
    /\ Len(classified) >= 1
    /\ classified[1].file_path = <<File("x", ".JPG")>>
    /\ FirstMatch(1, 1) /\ Matches(1, 2)
    /\ cfg.file_categories[1].category = "Documents"
    /\ cfg.file_categories[2].category = "Images"
    /\ classified[1].subfolder = <<Lit("Documents"), Lit("Other_Documents")>>

(***************************************************************************)
(* C19.  Every destination the classifier returns is exactly Others, or    *)
(* Category/Subkey with a subkey that is not empty, for every rule table   *)
(* and every file.                                                         *)
(***************************************************************************)
C19_OthersOrCategorySubkey ==
    \A i \in Calls :
        \/ classified[i].subfolder = <<Lit("Others")>>
        \/ /\ Len(classified[i].subfolder) = 2
           /\ NonEmpty(classified[i].subfolder[2])

\* The subfolders of the rule table name no empty subfolder.
SubfoldersNamed == \A e \in DOMAIN cfg.subfolders : cfg.subfolders[e] # ""

\* As amended: Others for a file no category holds; the name of the
\* category, alone, for a category other than Images, Audio, Documents and
\* Video; Category/Subkey, with a subkey that is not empty, for these four
\* when the subfolders table names no empty subfolder.
C19_OthersCategoryOrCategorySubkey ==
    \A i \in Calls :
        /\ Unmatched(i) => classified[i].subfolder = <<Lit("Others")>>
        /\ \A k \in 1..Len(cfg.file_categories) :
              FirstMatch(i, k)
              => IF cfg.file_categories[k].category \in BuiltIn
                 THEN /\ Len(classified[i].subfolder) = 2
                      /\ classified[i].subfolder[1] = Lit(cfg.file_categories[k].category)
                      /\ SubfoldersNamed => NonEmpty(classified[i].subfolder[2])
                 ELSE classified[i].subfolder = <<Lit(cfg.file_categories[k].category)>>

\* All three shapes: a .txt file under Documents/Other_Documents.
C19_Witness ==
    /\ Len(classified) >= 1
    /\ SubfoldersNamed
    /\ \E k \in 1..Len(cfg.file_categories) :
          FirstMatch(1, k) /\ cfg.file_categories[k].category = "Documents"
    /\ classified[1].subfolder = <<Lit("Documents"), Lit("Other_Documents")>>

(***************************************************************************)
(* C20.  For a category other than Images, Audio, Video and Documents,     *)
(* handle_category returns the name of the category unchanged and calls no *)
(* metadata backend.                                                       *)
(***************************************************************************)
C20_OtherCategoryIsItsOwnName ==
    \A i \in Calls : \A k \in 1..Len(cfg.file_categories) :
        (FirstMatch(i, k) /\ cfg.file_categories[k].category \notin BuiltIn)
        => (/\ classified[i].subfolder = <<Lit(cfg.file_categories[k].category)>>
            /\ classified[i].backends = {})

\* x.mp3 under a table where Archives lists ".mp3" before Audio does: the
\* destination is Archives and the duration was not looked up.
C20_Witness ==
    /\ Len(classified) >= 1
    /\ classified[1].file_path = <<File("x", ".mp3")>>
    /\ FirstMatch(1, 1)
    /\ cfg.file_categories[1].category = "Archives"
    /\ classified[1].subfolder = <<Lit("Archives")>>
    /\ classified[1].backends = {}

\* The category that call i is classified under is c.
CategoryOf(i, c) ==
    \E k \in 1..Len(cfg.file_categories) :
        FirstMatch(i, k) /\ cfg.file_categories[k].category = c

\* What the backends can read from the file of call i.
MetaOf(i) == fs[classified[i].file_path].meta

\* The duration of a readable file in whole seconds, truncated toward zero,
\* a negative or missing duration taken as 0.
WholeSeconds(meta) == IF ~meta.has \/ meta.a < 0 THEN 0 ELSE meta.a \div 10

(***************************************************************************)
(* C21.  For an Audio or Video file whose duration the backend can read,   *)
(* the destination is <category>/<seconds>s, seconds being the duration    *)
(* truncated toward zero and a negative or missing duration counting as 0. *)
(***************************************************************************)
C21_DurationKeyIsWholeSecondsFromZero ==
    \A i \in Calls : \A c \in {"Audio", "Video"} :
        (CategoryOf(i, c) /\ MetaOf(i).ok)
        => classified[i].subfolder = <<Lit(c), SecondsKey(WholeSeconds(MetaOf(i)))>>

(***************************************************************************)
(* C23.  For a Video file whose lower-case extension is not a supported    *)
(* container, get_video_duration raises the exception of the format test   *)
(* (ValueError, line 28), not the one any other file makes it raise, and   *)
(* the classifier goes on with Video/Unknown_Duration.                     *)
(***************************************************************************)
C23_UnsupportedContainerFailsDistinctly ==
    \A i \in Calls :
        (CategoryOf(i, "Video") /\ LowerExt(i) \notin supported_formats)
        => (/\ ~get_video_duration(fs, classified[i].file_path).ok
            /\ get_video_duration(fs, classified[i].file_path).exc = "ValueError"
            /\ classified[i].subfolder = <<Lit("Video"), Lit("Unknown_Duration")>>)

\* The folder a file of the running call is sent to when its backend
\* raises.
UnknownFolder(src) ==
    Top.folder \o (IF InCategory(src, "Images")
                   THEN <<Lit("Images"), Lit("Unknown_Size")>>
                   ELSE <<Lit("Audio"), Lit("Unknown_Duration")>>)

(***************************************************************************)
(* C22.  When get_image_size (get_audio_duration) raises for a file, the   *)
(* destination is Images/Unknown_Size (Audio/Unknown_Duration) under the   *)
(* folder, the loop goes on, and unless the target folder cannot be made   *)
(* the file is previewed there in a preview run and is there, and no       *)
(* longer in the folder, after the iteration of a real run.                *)
(***************************************************************************)
C22_BackendFailureFallsBackAndGoesOn ==
    [][(/\ Iterated
        /\ BackendRaises(fs, last'.src)
        /\ InCategory(last'.src, "Images") \/ InCategory(last'.src, "Audio"))
       => (/\ last'.orig = join(UnknownFolder(last'.src), last'.src[Len(last'.src)])
           /\ Continues
           /\ ~MkdirRaises =>
                 /\ last'.dest = last'.orig
                 /\ preview_mode =>
                       last'.kind = "preview" /\ OnlyIncrements("preview")
                 /\ ~preview_mode =>
                       /\ isfile(fs', last'.dest)
                       /\ ~exists(fs', last'.src)
                       /\ fs'[last'.dest].content = fs[last'.src].content)]_vars

\* q.mp3, which TinyTag cannot read, has been moved to
\* Audio/Unknown_Duration and the call is still running.
C22_Witness ==
    /\ pc = "running"
    /\ ~preview_mode
    /\ last.src = <<File("q", ".mp3")>>
    /\ last.dest = <<Lit("Audio"), Lit("Unknown_Duration"), File("q", ".mp3")>>
    /\ isfile(fs, last.dest)
    /\ ~exists(fs, last.src)

(***************************************************************************)
(* C24.  For a file of the Documents category the destination is           *)
(* Documents/<name>, name being the entry of the subfolders table for the  *)
(* lower-case extension, Other_Documents when there is none; no metadata   *)
(* backend is called.                                                      *)
(***************************************************************************)
C24_DocumentsGoByExtensionTable ==
    \A i \in Calls :
        CategoryOf(i, "Documents")
        => (/\ classified[i].subfolder =
                  <<Lit("Documents"),
                    Lit(IF LowerExt(i) \in DOMAIN cfg.subfolders
                        THEN cfg.subfolders[LowerExt(i)]
                        ELSE "Other_Documents")>>
            /\ classified[i].backends = {})

\* x.docx went to Documents/Word, and x.docx again; nothing was read.
C24_Witness ==
    /\ Len(classified) = 2
    /\ CategoryOf(1, "Documents")
    /\ classified[1].file_path = <<File("x", ".docx")>>
    /\ classified[2].subfolder = <<Lit("Documents"), Lit("Word")>>
    /\ classified[2].backends = {}

\* Call i classified an image whose size PIL can read.
ReadableImage(i) == CategoryOf(i, "Images") /\ MetaOf(i).ok

(***************************************************************************)
(* C25.  For two image files whose sizes are read, the classifier returns  *)
(* the same destination string exactly when width and height of the one   *)
(* equal width and height of the other.                                    *)
(***************************************************************************)
C25_SameDestinationIffSameSize ==
    \A i \in Calls, j \in Calls :
        (ReadableImage(i) /\ ReadableImage(j))
        => (format_path(classified[i].subfolder) = format_path(classified[j].subfolder)
            <=> (/\ MetaOf(i).a = MetaOf(j).a
                 /\ MetaOf(i).b = MetaOf(j).b))

\* x.jpg of 1x12 and y.jpg of 11x2 went to different folders.
C25_Witness ==
    /\ Len(classified) = 2
    /\ ReadableImage(1) /\ ReadableImage(2)
    /\ classified[1].file_path # classified[2].file_path
    /\ <<MetaOf(1).a, MetaOf(1).b>> = <<1, 12>>
    /\ <<MetaOf(2).a, MetaOf(2).b>> = <<11, 2>>
    /\ classified[1].subfolder # classified[2].subfolder
    /\ format_path(classified[1].subfolder) =
          <<"Images", "", "/", "1", "x", "1", "2">>

\* Counter k summed over the summaries of the first n frames of the stack.
RECURSIVE FrameSum(_, _)
FrameSum(n, k) ==
    IF n = 0 THEN 0 ELSE FrameSum(n - 1, k) + Count(stack[n].summary, k)

(***************************************************************************)
(* C26.  Every increment made at any directory level of a run, the key of  *)
(* a subdirectory that could not be listed included, is held once by the   *)
(* summaries of the calls still running and, when the outermost call has   *)
(* returned, by the summary it returned: merging adds key by key.          *)
(***************************************************************************)
C26_ReturnedSummaryIsSumOfLevels ==
    \A k \in SummaryKeys \cup DOMAIN counted \cup DOMAIN result :
        Count(counted, k) = IF pc = "done" THEN Count(result, k)
                            ELSE FrameSum(Len(stack), k)

\* A recursive preview run is over: two files of the folder and one of
\* sub/ were previewed, and the summary returned counts three.
C26_Witness ==
    /\ pc = "done"
    /\ recursive
    /\ last.kind = "preview"
    /\ Len(last.src) = 2
    /\ Count(result, "preview") = 3

\* Summary t holds, for every key, a count that is not negative and not
\* below the one of summary s.
NotBelow(s, t) ==
    \A k \in SummaryKeys \cup DOMAIN s \cup DOMAIN t :
        Count(t, k) >= Count(s, k) /\ Count(s, k) >= 0

(***************************************************************************)
(* C28.  In every step of a run, each counter of the summary of each call  *)
(* that is running before and after the step is non-negative and does not  *)
(* decrease, the step that merges the summary of a subdirectory included;  *)
(* the summary returned by the outermost call is not below the one it had. *)
(***************************************************************************)
C28_CountersNeverDecrease ==
    [][/\ \A p \in 1..Len(stack) :
             p <= Len(stack') => NotBelow(stack[p].summary, stack'[p].summary)
       /\ (pc = "running" /\ pc' = "done") => NotBelow(Top.summary, result')
       /\ \A p \in 1..Len(stack') : NotBelow(EmptySummary, stack'[p].summary)]_vars

\* The call on sub/ has returned: the folder's own preview and the one of
\* sub/ are both in the summary of the call on the folder, still running.
C28_Witness ==
    /\ pc = "running"
    /\ Len(stack) = 1
    /\ Top.todo # {}
    /\ last.kind = "preview"
    /\ Len(last.src) = 2
    /\ Count(Running, "preview") = 2

\* The entry of this iteration is not visited: it is no regular file, and
\* no directory that the call descends into.
NotVisited(src) == ~isfile(fs, src) /\ ~(isdir(fs, src) /\ recursive)

(***************************************************************************)
(* C29.  The iteration over an entry that is neither a regular file nor a  *)
(* directory, or over a directory when recursive is false, changes no      *)
(* counter, does not call the callback and changes nothing in the          *)
(* filesystem, and with recursive false no path below a directory of the   *)
(* initial tree ever goes away.  The iteration over a regular file without *)
(* extension adds one to no_extension, changes no other counter and leaves *)
(* the filesystem as it is.  The loop goes on in both cases.               *)
(***************************************************************************)
C29_SkippedEntriesLeaveNoTrace ==
    [][/\ (Iterated /\ NotVisited(last'.src))
           => (/\ \A k \in SummaryKeys : Count(Running', k) = Count(Running, k)
               /\ processed_files' = processed_files
               /\ ~last'.called
               /\ fs' = fs
               /\ Continues)
       /\ (Iterated /\ isfile(fs, last'.src) /\ last'.src[Len(last'.src)].e = "")
           => (/\ OnlyIncrements("no_extension")
               /\ ~last'.moved
               /\ fs' = fs
               /\ Continues)
       /\ ~recursive
           => \A p \in DOMAIN fs0 : Len(p) >= 2 => p \in DOMAIN fs']_vars

\* README has been counted under no_extension and is where it was, in a run
\* that has passed over sub/ without descending into it.
C29_Witness ==
    /\ pc = "running"
    /\ last.kind = "no_extension"
    /\ last.src = <<File("README", "")>>
    /\ isfile(fs, last.src)
    /\ Count(Running, "no_extension") = 1
    /\ ~recursive
    /\ isdir(fs, SubDir)
    /\ Lit("sub") \notin Top.todo
    /\ \A p \in DOMAIN fs0 : p \in DOMAIN fs

(***************************************************************************)
(* C30.  The InterruptedError that folder_callback raises once a stop is   *)
(* requested leaves organize_files: the iteration in which it is raised is *)
(* the last one of the call, and no file is moved after it.                *)
(***************************************************************************)
C30_InterruptLeavesOrganizeFiles ==
    [][/\ (Iterated /\ last'.cb_raised) => pc' # "running"
       /\ last.cb_raised => ~(Iterated /\ last'.moved)]_vars

\* Path p is folder itself or lies below it.
Below(folder, p) == Len(p) >= Len(folder) /\ SubSeq(p, 1, Len(folder)) = folder

\* What the call of thread i can return, with the filesystem it leaves,
\* when it runs alone on the filesystem the two calls started from.
RunAlone(i) == organize_files_alone(fs0, cfg, recursive, preview_mode, par[i].folder)

\* Filesystems f and g hold the same below folder.
SameBelow(folder, f, g) ==
    \A p \in DOMAIN f \cup DOMAIN g :
        Below(folder, p) => p \in DOMAIN f /\ p \in DOMAIN g /\ f[p] = g[p]

(***************************************************************************)
(* C27.  When one of two calls of organize_files running in parallel on    *)
(* the folders A and B has returned, however their steps were interleaved, *)
(* its summary and the tree below its folder are a summary the call        *)
(* returns and the tree it leaves when it runs alone.                      *)
(***************************************************************************)
C27_ParallelRunsAreIndependent ==
    \A i \in DOMAIN par :
        par[i].pc = "done"
        => \E r \in RunAlone(i) :
              /\ par[i].result = r.summary
              /\ SameBelow(par[i].folder, fs, r.fs)

\* The call on B has returned with one file dealt with while the call on A,
\* which has dealt with one file itself, is still in its loop.
C27_Witness ==
    /\ DOMAIN par = 1..2
    /\ par[2].pc = "done"
    /\ \E k \in {"preview", "move_failed", "moved"} : Count(par[2].result, k) >= 1
    /\ par[1].pc = "running"
    /\ Len(par[1].stack) = 1
    /\ ParTop(1).todo # {}
    /\ \E k \in {"preview", "move_failed", "moved"} : Count(ParTop(1).summary, k) >= 1

\* The counters of summary s added up.
RECURSIVE SumOver(_, _)
SumOver(s, keys) ==
    IF keys = {} THEN 0
    ELSE s[CHOOSE k \in keys : TRUE]
         + SumOver(s, keys \ {CHOOSE k \in keys : TRUE})

SumCounters(s) == SumOver(s, DOMAIN s)

\* The keys the body of the loop counts a regular file under.
FileKeys ==
    {"no_extension", "mkdir_failed", "duplicate_kept", "duplicate_check_failed",
     "moved", "move_failed", "preview", "processing_error"}

\* The regular files among the given entries of the folder of the run, as
\* they were listed.
RegularFiles(entries) == {file \in entries : isfile(fs0, <<file>>)}

(***************************************************************************)
(* C33.  In a non-recursive run over a folder that could be listed, the    *)
(* counters of the summary are among the eight keys of the loop body and   *)
(* add up to the number of regular files dealt with so far; at return they *)
(* add up to the number of regular files that were listed.                 *)
(***************************************************************************)
C33_OneCounterPerRegularFile ==
    (~recursive /\ par = <<>>)
    => (/\ (pc = "running" /\ Len(stack) = 1)
            => (/\ DOMAIN Top.summary \subseteq FileKeys
                /\ SumCounters(Top.summary) =
                      Cardinality(RegularFiles(listdir(fs0, Root) \ Top.todo)))
        /\ (pc = "done" /\ prelude(fs0, Root) = "ok")
            => (/\ DOMAIN result \subseteq FileKeys
                /\ SumCounters(result) =
                      Cardinality(RegularFiles(listdir(fs0, Root)))))

\* A run that does not descend has returned: README and two files were
\* counted, one counter each, and sub/ was passed over.
C33_Witness ==
    /\ pc = "done"
    /\ ~recursive
    /\ isdir(fs0, SubDir)
    /\ Count(result, "no_extension") = 1
    /\ Cardinality(DOMAIN result) >= 2
    /\ SumCounters(result) = 3

(***************************************************************************)
(* C34.  In a recursive run that is no preview, a file that is moved is    *)
(* moved from the place where it was when the run started: no file is      *)
(* moved from a place where the run itself has put it.                     *)
(***************************************************************************)
C34_EachFileMovedAtMostOnce ==
    (recursive /\ ~preview_mode /\ last.moved) => isfile(fs0, last.src)

(***************************************************************************)
(* C35.  When the destination exists with the same content, the action     *)
(* the loop acts on is k, o or r, and under an action that is none of the  *)
(* three the file at the destination is not replaced.                      *)
(***************************************************************************)
C35_UnknownReplyReplacesNothing ==
    (last.existed /\ last.hash = "eq" /\ last.kind # "duplicate_check_failed")
    => (/\ last.action \in {"k", "o", "r"}
        /\ last.action \notin {"o"} => ~(last.moved /\ last.dest = last.orig))

(***************************************************************************)
(* C36.  In a second run with recursive=True, after a run that is no       *)
(* preview has completed without failures, no file is moved and the tree   *)
(* stays as the first run left it.                                         *)
(***************************************************************************)
C36_SecondRunMovesNothing == second_run => (~last.moved /\ fs = fs0)

\* The status messages that report a run as completed.
Completed == {"Processing completed", "Preview completed"}

\* Signal n of the thread is status_changed with message m.
IsStatus(n, m) ==
    /\ thread.emitted[n].signal = "status_changed"
    /\ thread.emitted[n].arg = m

\* This step emits status_changed with message m.
EmitsStatus(m) ==
    /\ Len(thread'.emitted) = Len(thread.emitted) + 1
    /\ thread'.emitted[Len(thread'.emitted)].signal = "status_changed"
    /\ thread'.emitted[Len(thread'.emitted)].arg = m

\* This step starts the processing of a folder.
StartsFolder == thread.pc # "in_folder" /\ thread'.pc = "in_folder"

C32_FinishedOnceWithTheSum ==
    (thread # <<>> /\ thread.pc = "finished")
    => (/\ Cardinality({n \in 1..Len(thread.emitted) :
                          thread.emitted[n].signal = "processing_finished"}) = 1
        /\ thread.emitted[Len(thread.emitted)].signal = "processing_finished"
        /\ thread.emitted[Len(thread.emitted)].arg = thread.total)

====
